---- MODULE Spec2Model ----
(***************************************************************************)
(* A model of the browser-side services of the case-management tool:      *)
(*   - the settings store (getGroqSettings / saveGroqSettings),            *)
(*   - the AI request gateway (makeGroqAIRequest, generateMockAIResponse) *)
(*     and the domain callers built on it,                                 *)
(*   - the analysis stores of databaseService.ts and the page handlers    *)
(*     that fill them.                                                     *)
(* localStorage is a map from keys to texts.  A text is a record           *)
(* [kind, body]: kind "null" is an absent key, "raw" a text JSON.parse    *)
(* rejects, "obj" the JSON text of an object (body: its key/value pairs,  *)
(* in order), "arr" the JSON text of an array (body: its items).          *)
(***************************************************************************)
EXTENDS Integers, Sequences, FiniteSets, TLC

VARIABLES
    storage,     \* localStorage: key -> text
    svc,         \* which groqService module the bundle holds
    settings,    \* the Settings page's React state `settings`
    pendingSave, \* the last saveGroqSettings call, while no other write followed it
    lastCall,    \* the last operation run, its arguments and what it gave
    call,        \* the groqService call in flight: where it stands and what it gave
    procs        \* per browser tab, the analysis page's handler in flight

vars == <<storage, svc, settings, pendingSave, lastCall, call, procs>>

-----------------------------------------------------------------------------
(* Storage keys and texts *)

SettingsKey == "securai-api-settings"
OccurrencesKey == "securai-occurrences"
AudioKey == "securai-audio-transcriptions"
ImageKey == "securai-image-analyses"
ThemeKey == "theme"

StorageKeys == {SettingsKey, OccurrencesKey, AudioKey, ImageKey, ThemeKey}

NullText == [kind |-> "null", body |-> <<>>]
RawText == [kind |-> "raw", body |-> <<>>]
EmptyText == [kind |-> "empty", body |-> <<>>]

\* The two groqService modules of the repository that the pages import.
Services == {"groqService.ts", "part_004"}

-----------------------------------------------------------------------------
(* Configuration records: functions from field names to strings *)

GroqFields ==
    {"groqApiKey", "groqApiEndpoint", "groqModel", "whisperModel",
     "whisperApiEndpoint", "language"}

\* The four fields of the ApiSettings record of the older Settings page.
ApiSettingsFields ==
    {"groqApiKey", "groqApiEndpoint", "whisperApiKey", "whisperApiEndpoint"}

\* The order in which the keys of an object are written out.
FieldOrder ==
    <<"groqApiKey", "groqApiEndpoint", "groqModel", "whisperModel",
      "whisperApiEndpoint", "language", "whisperApiKey", "caseId", "filename">>

GroqChatUrl == "https://api.groq.com/openai/v1/chat/completions"
GroqWhisperUrl == "https://api.groq.com/openai/v1/audio/transcriptions"
OpenAiWhisperUrl == "https://api.openai.com/v1/audio/transcriptions"

\* The values a user types into the form fields (a small choice per field).
FieldValues ==
    [groqApiKey |-> {"", "gsk_live"},
     groqApiEndpoint |-> {GroqChatUrl},
     groqModel |-> {"mixtral-8x7b-32768"},
     whisperModel |-> {"distil-whisper-large-v3"},
     whisperApiEndpoint |-> {OpenAiWhisperUrl},
     language |-> {"en"},
     whisperApiKey |-> {""}]

\* The literal returned by getGroqSettings of groqService.ts.
DefaultSettings ==
    [groqApiKey |-> "",
     groqApiEndpoint |-> GroqChatUrl,
     groqModel |-> "meta-llama/llama-4-scout-17b-16e-instruct",
     whisperModel |-> "distil-whisper-large-v3",
     whisperApiEndpoint |-> GroqWhisperUrl,
     language |-> "pt"]

DEFAULT_GROQ_SETTINGS ==
    [groqApiKey |-> "",
     groqApiEndpoint |-> GroqChatUrl,
     groqModel |-> "llama-3-8b-8192",
     whisperModel |-> "whisper-large-v3",
     whisperApiEndpoint |-> GroqWhisperUrl,
     language |-> "pt"]

\* The object spread {...a, ...b}.
Spread(a, b) ==
    [k \in (DOMAIN a) \cup (DOMAIN b) |-> IF k \in DOMAIN b THEN b[k] ELSE a[k]]

-----------------------------------------------------------------------------
(* JSON.stringify and JSON.parse of an object of string fields *)

\* The key/value pairs of an object, in the order they are written out.
ObjectPairs(obj) ==
    LET keys == SelectSeq(FieldOrder, LAMBDA k : k \in DOMAIN obj)
    IN  [i \in 1..Len(keys) |-> <<keys[i], obj[keys[i]]>>]

\* The object a sequence of key/value pairs denotes: the last pair of a key wins.
PairsObject(b) ==
    LET keys == {b[i][1] : i \in DOMAIN b}
        last(k) == CHOOSE i \in DOMAIN b :
                       /\ b[i][1] = k
                       /\ \A j \in DOMAIN b : j > i => b[j][1] # k
    IN  [k \in keys |-> b[last(k)][2]]

JSON_stringify(obj) == [kind |-> "obj", body |-> ObjectPairs(obj)]

\* JSON.stringify of an array of objects.
JSON_stringifyArray(items) ==
    [kind |-> "arr", body |-> [i \in 1..Len(items) |-> ObjectPairs(items[i])]]

\* [exc, isArray, val]: exc when the text is no JSON; val the object of an
\* "obj" text, the array of objects of an "arr" text.
JSON_parse(text) ==
    IF text.kind = "obj"
    THEN [exc |-> FALSE, isArray |-> FALSE, val |-> PairsObject(text.body)]
    ELSE IF text.kind = "arr"
    THEN [exc |-> FALSE, isArray |-> TRUE,
          val |-> [i \in 1..Len(text.body) |-> PairsObject(text.body[i])]]
    ELSE [exc |-> TRUE, isArray |-> FALSE, val |-> <<>>]

\* localStorage.getItem: the text under the key, or an exception.
getItem(store, key, fault) ==
    IF fault THEN [exc |-> TRUE, val |-> NullText]
    ELSE [exc |-> FALSE, val |-> store[key]]

\* localStorage.setItem: the new store, or an exception and the store as it was.
setItem(store, key, text, fault) ==
    IF fault THEN [exc |-> TRUE, store |-> store]
    ELSE [exc |-> FALSE, store |-> [store EXCEPT ![key] = text]]

\* A text is truthy when it is neither null nor the empty string (no code
\* stores the empty string; a key may hold it all the same).
Truthy(text) == text.kind \notin {"null", "empty"}

-----------------------------------------------------------------------------
(* Texts, values and processes at rest *)

\* A text the services handle: a canned mock (tag: which one), a reply of the
\* chat endpoint (tag: its form), or none.  stamp holds what a mock takes from
\* the clock and the random generator.
Text(kind, tag, stamp) == [kind |-> kind, tag |-> tag, stamp |-> stamp]
NoText == Text("none", "", <<>>)

\* What a caller gives back: its kind, the text it was made from, its details.
Value(kind, text, detail) == [kind |-> kind, text |-> text, detail |-> detail]

Pending == [kind |-> "none", value |-> Value("none", NoText, <<>>)]
Threw(message) == [kind |-> "threw", value |-> Value("error", NoText, <<message>>)]
Returned(v) == [kind |-> "returned", value |-> v]

\* The gateway's part of a call: not asked, or settled with a text or an error.
NotAsked == [state |-> "none", threw |-> FALSE, text |-> NoText, error |-> ""]
Settled(text) == [state |-> "settled", threw |-> FALSE, text |-> text, error |-> ""]
Rejected(message) == [state |-> "settled", threw |-> TRUE, text |-> NoText, error |-> message]

NoArg == [name |-> "", text |-> {}]

\* A call of a groqService function.  key is the API key the caller read, gkey
\* the one makeGroqAIRequest read ("unread": not read), posts and whisperPosts
\* count the POSTs sent to the chat and to the transcription endpoint.
NewCall(caller, arg, key) ==
    [pc |-> "run", caller |-> caller, arg |-> arg, messages |-> <<>>,
     key |-> key, gkey |-> "unread", posts |-> 0, whisperPosts |-> 0,
     status |-> "none", gateway |-> NotAsked, outcome |-> Pending]

IdleCall == [NewCall("none", NoArg, "unread") EXCEPT !.pc = "idle"]

\* The browser tabs that share localStorage.
Tabs == {"tabA", "tabB"}

\* What a tab's handler is at: read is the text its save got from localStorage
\* and has not yet written back.
IdleProc ==
    [pc |-> "idle", domain |-> "none", caseId |-> "", filename |-> "", read |-> NullText]

-----------------------------------------------------------------------------
(* The settings store *)

\* getGroqSettings without its catch: a text that is no JSON makes it throw.
getGroqSettingsUncaught(store, fault) ==
    LET item == getItem(store, SettingsKey, fault)
    IN  IF item.exc
        THEN [threw |-> TRUE, value |-> DefaultSettings]
        ELSE IF Truthy(item.val)
             THEN LET p == JSON_parse(item.val)
                  IN  IF p.exc
                      THEN [threw |-> TRUE, value |-> DefaultSettings]
                      ELSE [threw |-> FALSE, value |-> p.val]
             ELSE [threw |-> FALSE, value |-> DefaultSettings]

\* getGroqSettings of groqService.ts: [threw, value].
getGroqSettings(store, fault) ==
    LET item == getItem(store, SettingsKey, fault)
    IN  IF item.exc
        THEN [threw |-> FALSE, value |-> DefaultSettings]
        ELSE IF Truthy(item.val)
             THEN LET p == JSON_parse(item.val)
                  IN  IF p.exc
                      THEN [threw |-> FALSE, value |-> DefaultSettings]
                      ELSE [threw |-> FALSE, value |-> p.val]
             ELSE [threw |-> FALSE, value |-> DefaultSettings]

\* saveGroqSettings keeping the stored API key when the record given has an
\* empty one.
saveGroqSettingsKeepsKey(store, cfg, fault) ==
    LET old == JSON_parse(store[SettingsKey])
        key == IF cfg["groqApiKey"] = "" /\ ~old.exc
               THEN old.val["groqApiKey"]
               ELSE cfg["groqApiKey"]
        w == setItem(store, SettingsKey,
                     JSON_stringify(Spread(cfg, [groqApiKey |-> key])), fault)
    IN  [threw |-> FALSE, store |-> w.store]

\* saveGroqSettings patching the stored record instead of replacing it.
saveGroqSettingsPatch(store, cfg, fault) ==
    LET old == JSON_parse(store[SettingsKey])
        merged == IF old.exc THEN cfg ELSE Spread(old.val, cfg)
        w == setItem(store, SettingsKey, JSON_stringify(merged), fault)
    IN  [threw |-> FALSE, store |-> w.store]

\* saveGroqSettings of groqService.ts: [threw, store].
saveGroqSettings(store, cfg, fault) ==
    LET w == setItem(store, SettingsKey, JSON_stringify(cfg), fault)
    IN  [threw |-> FALSE, store |-> w.store]

\* getGroqSettings of part_004: the shared DEFAULT_GROQ_SETTINGS is the default.
getGroqSettings004(store, fault) ==
    LET item == getItem(store, SettingsKey, fault)
    IN  IF item.exc
        THEN [threw |-> FALSE, value |-> DEFAULT_GROQ_SETTINGS]
        ELSE IF Truthy(item.val)
             THEN LET p == JSON_parse(item.val)
                  IN  IF p.exc
                      THEN [threw |-> FALSE, value |-> DEFAULT_GROQ_SETTINGS]
                      ELSE [threw |-> FALSE, value |-> p.val]
             ELSE [threw |-> FALSE, value |-> DEFAULT_GROQ_SETTINGS]

\* saveGroqSettings of part_004: the record is spread over the defaults.
saveGroqSettings004(store, cfg, fault) ==
    LET w == setItem(store, SettingsKey,
                     JSON_stringify(Spread(DEFAULT_GROQ_SETTINGS, cfg)), fault)
    IN  [threw |-> FALSE, store |-> w.store]

\* The functions the pages import from '../services/groqService'.
ImportedGet(s, store, fault) ==
    IF s = "groqService.ts" THEN getGroqSettings(store, fault)
    ELSE getGroqSettings004(store, fault)

ImportedSave(s, store, cfg, fault) ==
    IF s = "groqService.ts" THEN saveGroqSettings(store, cfg, fault)
    ELSE saveGroqSettings004(store, cfg, fault)

\* What a read of the settings key meets: a storage exception, no key, a text
\* that is no JSON, or a stored object.
ReadCondition(store, fault) ==
    IF fault THEN "raised"
    ELSE IF store[SettingsKey].kind = "null" THEN "absent"
    ELSE IF store[SettingsKey].kind = "empty" THEN "empty"
    ELSE IF store[SettingsKey].kind = "raw" THEN "unparsable"
    ELSE "stored"

NoPendingSave == [active |-> FALSE, cfg |-> <<>>, raised |-> FALSE]

\* The record App writes on first start.
AppDefaults ==
    [groqApiKey |-> "",
     groqApiEndpoint |-> GroqChatUrl,
     groqModel |-> "meta-llama/llama-4-maverick-17b-128e-instruct",
     whisperModel |-> "distil-whisper-large-v3",
     whisperApiEndpoint |-> GroqWhisperUrl,
     language |-> "pt"]

\* App's effect writing the defaults whenever the settings it read have no
\* API key.
AppInitWithoutProbe ==
    \E rf1, wf \in BOOLEAN :
        LET got == ImportedGet(svc, storage, rf1)
            writes == ~got.threw /\ got.value["groqApiKey"] = ""
            saved == ImportedSave(svc, storage, AppDefaults, wf)
        IN  /\ storage' = IF writes THEN saved.store ELSE storage
            /\ pendingSave' = IF writes
                              THEN [active |-> TRUE, cfg |-> AppDefaults, raised |-> wf]
                              ELSE pendingSave
            /\ lastCall' = IF writes
                           THEN [op |-> "save", raised |-> wf, threw |-> saved.threw]
                           ELSE [op |-> "appInit", threw |-> FALSE]
            /\ UNCHANGED <<svc, settings, call, procs>>

\* App's initialisation effect.
AppInit ==
    \E rf1, rf2, wf \in BOOLEAN :
        LET got == ImportedGet(svc, storage, rf1)
            probe == getItem(storage, SettingsKey, rf2)
            writes == /\ ~got.threw
                      /\ got.value["groqApiKey"] = ""
                      /\ ~probe.exc
                      /\ ~Truthy(probe.val)
            saved == ImportedSave(svc, storage, AppDefaults, wf)
        IN  /\ storage' = IF writes THEN saved.store ELSE storage
            /\ pendingSave' = IF writes
                              THEN [active |-> TRUE, cfg |-> AppDefaults, raised |-> wf]
                              ELSE pendingSave
            /\ lastCall' = IF writes
                           THEN [op |-> "save", raised |-> wf, threw |-> saved.threw]
                           ELSE [op |-> "appInit",
                                 threw |-> (got.value["groqApiKey"] = "" /\ probe.exc)]
            /\ UNCHANGED <<svc, settings, call, procs>>

\* The Settings page's mount effect: the form takes what getGroqSettings gives.
SettingsMount ==
    \E rf \in BOOLEAN :
        LET got == ImportedGet(svc, storage, rf)
        IN  /\ ~got.threw
            /\ settings' = got.value
            /\ lastCall' = [op |-> "mount"]
            /\ UNCHANGED <<storage, svc, pendingSave, call, procs>>

\* The form fields the model edits.
EditedFields == {"groqApiKey", "groqModel", "language"}

\* handleSettingsChange: one field of the form is set.
handleSettingsChange ==
    \E f \in EditedFields : \E v \in FieldValues[f] :
        /\ settings' = Spread(settings, (f :> v))
        /\ settings' # settings
        /\ lastCall' = [op |-> "change"]
        /\ UNCHANGED <<storage, svc, pendingSave, call, procs>>

\* handleSaveSettings: saveGroqSettings(settings).
handleSaveSettings ==
    \E wf \in BOOLEAN :
        LET saved == ImportedSave(svc, storage, settings, wf)
        IN  /\ storage' = saved.store
            /\ pendingSave' = [active |-> TRUE, cfg |-> settings, raised |-> wf]
            /\ lastCall' = [op |-> "save", raised |-> wf, threw |-> saved.threw]
            /\ UNCHANGED <<svc, settings, call, procs>>

\* saveSettings of the older Settings page: its four-field form is written
\* directly, outside any try.
saveSettings ==
    \E key \in FieldValues["groqApiKey"] : \E wf \in BOOLEAN :
        LET form == [groqApiKey |-> key,
                     groqApiEndpoint |-> GroqChatUrl,
                     whisperApiKey |-> "",
                     whisperApiEndpoint |-> OpenAiWhisperUrl]
            w == setItem(storage, SettingsKey, JSON_stringify(form), wf)
        IN  /\ storage' = w.store
            /\ pendingSave' = NoPendingSave
            /\ lastCall' = [op |-> "legacySave", threw |-> w.exc]
            /\ UNCHANGED <<svc, settings, call, procs>>

\* Any consumer's call of getGroqSettings().
ReadSettings ==
    \E rf \in BOOLEAN :
        LET got == ImportedGet(svc, storage, rf)
        IN  /\ lastCall' = [op |-> "get", result |-> got.value, threw |-> got.threw,
                            cond |-> ReadCondition(storage, rf), fault |-> rf]
            /\ UNCHANGED <<storage, svc, settings, pendingSave, call, procs>>

\* Storage before the page is first opened: every key absent, or the settings
\* key holding a text that is no JSON (left by something other than these pages).
InitStorage ==
    {[k \in StorageKeys |-> IF k = SettingsKey THEN t ELSE NullText] :
        t \in {NullText, RawText}}

InitSettings ==
    /\ storage \in InitStorage
    /\ svc \in Services
    /\ settings = DEFAULT_GROQ_SETTINGS
    /\ pendingSave = NoPendingSave
    /\ lastCall = [op |-> "none"]
    /\ call = IdleCall
    /\ procs = [t \in Tabs |-> IdleProc]

NextSettings ==
    \/ AppInit
    \/ SettingsMount
    \/ handleSettingsChange
    \/ handleSaveSettings
    \/ saveSettings
    \/ ReadSettings

SpecSettings == InitSettings /\ [][NextSettings]_vars

-----------------------------------------------------------------------------
(* Claims about the settings store *)

\* The object stored under the settings key: [exc, val].
StoredSettings(store) == JSON_parse(store[SettingsKey])

\* What a read gives back after saveGroqSettings(cfg) wrote: cfg itself with
\* groqService.ts, cfg over the defaults with part_004.
WrittenRecord(s, cfg) ==
    IF s = "groqService.ts" THEN cfg ELSE Spread(DEFAULT_GROQ_SETTINGS, cfg)

\* C1 as stated: after saveGroqSettings(cfg) and no other write to the key,
\* getGroqSettings() returns a record equal to cfg.
C1_RoundTripAsStated ==
    (lastCall.op = "get" /\ pendingSave.active) =>
        /\ ~lastCall.threw
        /\ lastCall.result = pendingSave.cfg

\* C1 amended: when neither the write of saveGroqSettings(cfg) nor the read of
\* getGroqSettings() raises, and no other write to the key came in between, the
\* read returns cfg (groqService.ts) or cfg completed by DEFAULT_GROQ_SETTINGS
\* for the fields it lacks (part_004): a record equal to cfg whenever cfg holds
\* all six fields.
C1_RoundTrip ==
    (/\ lastCall.op = "get"
     /\ pendingSave.active
     /\ ~pendingSave.raised
     /\ ~lastCall.fault) =>
        /\ ~lastCall.threw
        /\ lastCall.result = WrittenRecord(svc, pendingSave.cfg)
        /\ (GroqFields \subseteq DOMAIN pendingSave.cfg
                => lastCall.result = pendingSave.cfg)

\* C1 witness: a configured record was saved and read back with groqService.ts.
C1_Witness ==
    /\ svc = "groqService.ts"
    /\ lastCall.op = "get"
    /\ pendingSave.active
    /\ ~pendingSave.raised
    /\ ~lastCall.fault
    /\ pendingSave.cfg["groqApiKey"] = "gsk_live"
    /\ lastCall.result = pendingSave.cfg

\* C2: getGroqSettings of groqService.ts never throws, and a read that meets an
\* absent key, a text that is no JSON or a storage exception returns the fixed
\* default record (empty API key, non-empty endpoints and model identifiers),
\* the same one at every such read.
C2_DefaultOnFailedRead ==
    (svc = "groqService.ts" /\ lastCall.op = "get") =>
        /\ ~lastCall.threw
        /\ (lastCall.cond \in {"absent", "unparsable", "raised"} =>
               /\ lastCall.result =
                      [groqApiKey |-> "",
                       groqApiEndpoint |-> "https://api.groq.com/openai/v1/chat/completions",
                       groqModel |-> "meta-llama/llama-4-scout-17b-16e-instruct",
                       whisperModel |-> "distil-whisper-large-v3",
                       whisperApiEndpoint |-> "https://api.groq.com/openai/v1/audio/transcriptions",
                       language |-> "pt"]
               /\ \A f \in GroqFields \ {"groqApiKey"} : lastCall.result[f] # "")

\* C2 witness: a read met a stored text that is no JSON.
C2_Witness ==
    /\ svc = "groqService.ts"
    /\ lastCall.op = "get"
    /\ lastCall.cond = "unparsable"
    /\ lastCall.result["groqApiKey"] = ""

\* C3 as stated: after saveGroqSettings(cfg) the stored configuration is
\* exactly cfg, with nothing of the previous record or of the defaults in it.
C3_ExactOverwriteAsStated ==
    lastCall.op = "save" =>
        /\ ~StoredSettings(storage).exc
        /\ StoredSettings(storage).val = pendingSave.cfg

\* C3 amended: a saveGroqSettings(cfg) whose write does not raise replaces the
\* stored value wholesale, by cfg alone with groqService.ts and by cfg spread
\* over DEFAULT_GROQ_SETTINGS with part_004 (fields cfg lacks take the default
\* value, fields it holds always win); no field of the previously stored record
\* survives.  When the write raises, the stored value stays as it was.
C3_WholesaleOverwrite ==
    [][lastCall'.op = "save" =>
          IF lastCall'.raised
          THEN storage' = storage
          ELSE /\ ~StoredSettings(storage').exc
               /\ StoredSettings(storage').val = WrittenRecord(svc, pendingSave'.cfg)
               /\ \A k \in StorageKeys \ {SettingsKey} : storage'[k] = storage[k]]_vars

\* C3 witness: part_004 stored a four-field record completed by its defaults.
C3_Witness ==
    /\ svc = "part_004"
    /\ lastCall.op = "save"
    /\ ~lastCall.raised
    /\ "groqModel" \notin DOMAIN pendingSave.cfg
    /\ StoredSettings(storage).val["groqModel"] = "llama-3-8b-8192"

-----------------------------------------------------------------------------
(* The AI request gateway of groqService.ts and part_004 *)

\* A message text is the set of the phrases of interest it holds.
\* text.includes(s): the phrase is in the text; "imagem" holds "image".
Includes(text, s) == s \in text \/ (s = "image" /\ "imagem" \in text)

TextPart(t) == [type |-> "text", text |-> t]
ImagePart == [type |-> "image_url", text |-> {}]
StringContent(t) == [form |-> "string", parts |-> <<TextPart(t)>>]
ArrayContent(parts) == [form |-> "array", parts |-> parts]
UserMessage(content) == [role |-> "user", content |-> content]
SystemMessage(t) == [role |-> "system", content |-> StringContent(t)]

\* The last message of role user, or none.
LastUserMessage(messages) ==
    LET userMessages == SelectSeq(messages, LAMBDA m : m.role = "user")
    IN  IF Len(userMessages) = 0
        THEN [found |-> FALSE, content |-> StringContent({})]
        ELSE [found |-> TRUE, content |-> userMessages[Len(userMessages)].content]

\* userContent of generateMockAIResponse: the last user message when it is a
\* string, the text of its first part of type text when it is an array.
UserContent(messages) ==
    LET last == LastUserMessage(messages)
        parts == last.content.parts
        texts == {i \in DOMAIN parts : parts[i].type = "text"}
    IN  IF ~last.found THEN {}
        ELSE IF last.content.form = "string" THEN parts[1].text
        ELSE IF texts = {} THEN {}
        ELSE parts[CHOOSE i \in texts : \A j \in texts : i <= j].text

\* Every phrase the last user message holds, in whichever part.
WholeUserText(messages) ==
    LET parts == LastUserMessage(messages).content.parts
    IN  UNION {parts[i].text : i \in DOMAIN parts}

\* What a mock takes from new Date() and Math.random().
Envs == [now : {"2024-05-01", "2024-05-02"}, rand : {17, 512}]

\* generateMockAIResponse with the audio branch tested before the image branch.
generateMockAIResponseAudioFirst(messages, env) ==
    LET userContent == UserContent(messages)
    IN  IF \/ Includes(userContent, "boletim de ocorrência")
           \/ Includes(userContent, "Analise o seguinte conteúdo extraído")
        THEN Text("mock", "occurrence", <<>>)
        ELSE IF Includes(userContent, "áudio") \/ Includes(userContent, "audio")
        THEN Text("mock", "audio", <<>>)
        ELSE IF Includes(userContent, "imagem") \/ Includes(userContent, "image")
        THEN Text("mock", "image", <<>>)
        ELSE Text("mock", "generic", <<>>)

\* generateMockAIResponse looking for its keywords in every message.
generateMockAIResponseAnyMessage(messages, env) ==
    LET all == UNION {UNION {messages[i].content.parts[j].text :
                                 j \in DOMAIN messages[i].content.parts} :
                          i \in DOMAIN messages}
    IN  IF Includes(all, "boletim de ocorrência") THEN Text("mock", "occurrence", <<>>)
        ELSE IF Includes(all, "imagem") THEN Text("mock", "image", <<>>)
        ELSE IF Includes(all, "áudio") THEN Text("mock", "audio", <<>>)
        ELSE Text("mock", "generic", <<>>)

generateMockAIResponse(messages, env) ==
    LET userContent == UserContent(messages)
    IN  IF \/ Includes(userContent, "boletim de ocorrência")
           \/ Includes(userContent, "Analise o seguinte conteúdo extraído")
        THEN Text("mock", "occurrence", <<>>)
        ELSE IF Includes(userContent, "imagem") \/ Includes(userContent, "image")
        THEN Text("mock", "image", <<>>)
        ELSE IF Includes(userContent, "áudio") \/ Includes(userContent, "audio")
        THEN Text("mock", "audio", <<>>)
        ELSE IF \/ Includes(userContent, "relatório de investigação")
                \/ Includes(userContent, "investigation")
        THEN Text("mock", "report", <<env.now, env.rand>>)
        ELSE IF \/ Includes(userContent, "link analysis")
                \/ Includes(userContent, "grafo")
                \/ Includes(userContent, "vínculos")
        THEN Text("mock", "graph", <<>>)
        ELSE Text("mock", "generic", <<>>)

\* The forms of a reply that JSON.parse accepts: "json" is an object with the
\* fields the prompt asked for, "jsonEmpty" the object {}, "jsonNull" the text
\* null, "jsonScalars" an object whose fields are all strings or numbers.
JsonForms == {"json", "jsonEmpty", "jsonNull", "jsonScalars"}

\* What the chat endpoint does with a POST: a 2xx reply whose content is a
\* string holding JSON of one of these forms or prose, a 2xx body without
\* choices, a non-2xx status with a JSON or another body, or no response at
\* all.
ChatResponses ==
    {[kind |-> "ok", detail |-> f] : f \in JsonForms \cup {"prose"}}
    \cup
    {[kind |-> "malformed", detail |-> ""],
     [kind |-> "non2xx", detail |-> "json"], [kind |-> "non2xx", detail |-> "text"],
     [kind |-> "neterr", detail |-> ""]}

\* makeGroqAIRequest of groqService.ts up to its fetch.
makeGroqAIRequest(c, cfg, env) ==
    IF cfg["groqApiKey"] = ""
    THEN [c EXCEPT !.gkey = "",
                   !.gateway = Settled(generateMockAIResponse(c.messages, env))]
    ELSE [c EXCEPT !.gkey = cfg["groqApiKey"], !.pc = "chat", !.posts = @ + 1]

\* makeGroqAIRequest sending the request once more when the first one failed.
makeGroqAIRequestResends(c, resp, env) ==
    IF resp.kind # "ok" /\ c.posts = 1
    THEN [c EXCEPT !.posts = @ + 1]
    ELSE [c EXCEPT !.pc = "run", !.status = resp.kind,
                   !.gateway = IF resp.kind = "ok"
                               THEN Settled(Text("reply", resp.detail, <<>>))
                               ELSE Settled(generateMockAIResponse(c.messages, env))]

\* makeGroqAIRequest whose catch throws the error of a failed fetch again.
makeGroqAIRequestRethrows(c, resp, env) ==
    [c EXCEPT !.pc = "run", !.status = resp.kind,
              !.gateway = CASE resp.kind = "ok" -> Settled(Text("reply", resp.detail, <<>>))
                            [] resp.kind = "neterr" -> Rejected("fetch failed")
                            [] OTHER -> Settled(generateMockAIResponse(c.messages, env))]

\* makeGroqAIRequest of groqService.ts from the response on: a 2xx reply is
\* returned; a non-2xx status, a body that cannot be read and a failed fetch
\* all end in the mock.
makeGroqAIRequestOnResponse(c, resp, env) ==
    [c EXCEPT !.pc = "run", !.status = resp.kind,
              !.gateway = IF resp.kind = "ok"
                          THEN Settled(Text("reply", resp.detail, <<>>))
                          ELSE Settled(generateMockAIResponse(c.messages, env))]

\* makeGroqAIRequest of part_004: it throws where groqService.ts mocks.
makeGroqAIRequest004(c, cfg, env) ==
    IF cfg["groqApiKey"] = ""
    THEN [c EXCEPT !.gkey = "", !.gateway = Rejected("API key not configured")]
    ELSE [c EXCEPT !.gkey = cfg["groqApiKey"], !.pc = "chat", !.posts = @ + 1]

makeGroqAIRequest004OnResponse(c, resp, env) ==
    [c EXCEPT !.pc = "run", !.status = resp.kind,
              !.gateway = CASE resp.kind = "ok" -> Settled(Text("reply", resp.detail, <<>>))
                            [] resp.kind = "malformed" ->
                                   Rejected("Invalid response format from GROQ API")
                            [] resp.kind = "non2xx" /\ resp.detail = "json" ->
                                   Rejected("GROQ API error")
                            [] OTHER -> Rejected("fetch failed")]

ImportedRequest(s, c, cfg, env) ==
    IF s = "groqService.ts" THEN makeGroqAIRequest(c, cfg, env)
    ELSE makeGroqAIRequest004(c, cfg, env)

\* The gateway sending its request again after a failed one.
ImportedOnResponseRetries(s, c, resp, env) ==
    IF resp.kind # "ok" /\ c.posts = 1
    THEN [c EXCEPT !.posts = @ + 1]
    ELSE [c EXCEPT !.pc = "run", !.status = resp.kind,
                   !.gateway = Settled(Text("reply", resp.detail, <<>>))]

ImportedOnResponse(s, c, resp, env) ==
    IF s = "groqService.ts" THEN makeGroqAIRequestOnResponse(c, resp, env)
    ELSE makeGroqAIRequest004OnResponse(c, resp, env)

\* JSON.parse of what the gateway gave, code fences stripped: the image and the
\* graph mocks are JSON texts, the other mocks are prose.
ParsesAsJson(text) ==
    \/ text.kind = "mock" /\ text.tag \in {"image", "graph"}
    \/ text.kind = "reply" /\ text.tag \in JsonForms

\* The parsed text holds ocr_text, faces and license_plates as the prompt of
\* analyzeImageWithGroq asked for them.
HasImageShape(text) ==
    \/ text.kind = "mock" /\ text.tag = "image"
    \/ text.kind = "reply" /\ text.tag = "json"

\* Reading the fields of the parsed text as analyzeImageWithGroq does throws a
\* TypeError: the text is null, or faces is no array and has no map.
ImageFieldsThrow(text) == text.kind = "reply" /\ text.tag \in {"jsonNull", "jsonScalars"}

\* Array.isArray(parsed.nodes) && Array.isArray(parsed.links): a JSON reply is
\* taken to have the shape its prompt asked for.
HasGraphShape(text) ==
    \/ text.kind = "mock" /\ text.tag = "graph"
    \/ text.kind = "reply" /\ text.tag = "json"

getMockAudioTranscription(filename) ==
    Value("mockTranscription", NoText, <<>>)

getMockDocumentAnalysis(documentName, documentText) ==
    Value("mockDocumentAnalysis", NoText,
          <<documentName,
            IF Includes(documentText, "furto") THEN "Furto"
            ELSE IF Includes(documentText, "roubo") THEN "Roubo"
            ELSE "Ocorrência Policial Geral">>)

\* transcribeAudioWithGroq posting the file whatever the key is.
transcribeAudioWithGroqUnguarded(cfg, audioFile) ==
    [NewCall("transcribeAudioWithGroq", audioFile, cfg["groqApiKey"])
        EXCEPT !.pc = "whisper", !.whisperPosts = @ + 1]

\* transcribeAudioWithGroq up to its fetch of the transcription endpoint.
transcribeAudioWithGroq(cfg, audioFile) ==
    LET c == NewCall("transcribeAudioWithGroq", audioFile, cfg["groqApiKey"])
    IN  IF cfg["groqApiKey"] = ""
        THEN [c EXCEPT !.pc = "done",
                       !.outcome = Returned(getMockAudioTranscription(audioFile.name))]
        ELSE [c EXCEPT !.pc = "whisper", !.whisperPosts = @ + 1]

\* What the transcription endpoint answers: a transcript with segments, one
\* without, a non-2xx status, or nothing.
WhisperResponses == {"segments", "noSegments", "non2xx", "neterr"}

\* transcribeAudioWithGroq from the transcription response to its call of the
\* gateway: pc "ask" when the gateway is to be called.
transcribeAudioWithGroqOnWhisper(c, resp) ==
    CASE resp = "non2xx" ->
            [c EXCEPT !.pc = "done", !.outcome = Threw("GROQ Whisper API error")]
      [] resp = "neterr" ->
            [c EXCEPT !.pc = "done", !.outcome = Threw("Failed to fetch")]
      [] resp = "noSegments" ->
            [c EXCEPT !.pc = "done",
                      !.outcome = Returned(Value("transcription", NoText, <<"synthetic">>))]
      [] OTHER ->
            [c EXCEPT !.pc = "ask",
                      !.messages = <<SystemMessage({"áudio"}), UserMessage(StringContent(c.arg.text))>>]

\* transcribeAudioWithGroq after the gateway: what the gateway gave is dropped.
transcribeAudioWithGroqResult(c) ==
    Returned(Value("transcription", NoText, <<"segments">>))

\* analyzeImageWithGroq up to its call of the gateway.
analyzeImageWithGroq(cfg, image) ==
    LET c == NewCall("analyzeImageWithGroq", image, cfg["groqApiKey"])
    IN  IF cfg["groqApiKey"] = ""
        THEN [c EXCEPT !.pc = "done", !.outcome = Threw("API key not configured")]
        ELSE [c EXCEPT !.pc = "ask",
                       !.messages = <<SystemMessage({"imagem"}),
                                      UserMessage(ArrayContent(<<TextPart({"imagem"}), ImagePart>>))>>]

\* analyzeImageWithGroq after the gateway: the parsed JSON (each missing field
\* as '' or []), or what the regular expressions find in the text when
\* JSON.parse or the reading of the fields throws.
analyzeImageWithGroqResult(c) ==
    IF c.gateway.threw THEN Threw(c.gateway.error)
    ELSE IF ParsesAsJson(c.gateway.text) /\ ~ImageFieldsThrow(c.gateway.text)
    THEN IF HasImageShape(c.gateway.text)
         THEN Returned(Value("imageAnalysis", c.gateway.text, <<>>))
         ELSE Returned(Value("imageAnalysis", c.gateway.text, <<"empty fields">>))
    ELSE Returned(Value("imageAnalysis", c.gateway.text, <<"regex">>))

\* enhanceImageWithGroq: the canvas work, with no request to any endpoint.
enhanceImageWithGroq(cfg, image, canvas) ==
    LET c == NewCall("enhanceImageWithGroq", image, cfg["groqApiKey"])
    IN  IF cfg["groqApiKey"] = ""
        THEN [c EXCEPT !.pc = "done", !.outcome = Threw("API key not configured")]
        ELSE IF canvas = "failed"
        THEN [c EXCEPT !.pc = "done", !.outcome = Threw("Failed to get canvas context")]
        ELSE [c EXCEPT !.pc = "done",
                       !.outcome = Returned(Value("enhancedImage", NoText, <<canvas>>))]

\* analyzePdfDocumentWithGroq up to its call of the gateway.
analyzePdfDocumentWithGroq(cfg, document) ==
    LET c == NewCall("analyzePdfDocumentWithGroq", document, cfg["groqApiKey"])
    IN  IF cfg["groqApiKey"] = ""
        THEN [c EXCEPT !.pc = "done",
                       !.outcome = Returned(getMockDocumentAnalysis(document.name, document.text))]
        ELSE [c EXCEPT !.pc = "ask",
                       !.messages =
                           <<SystemMessage({}),
                             UserMessage(StringContent(
                                 {"Analise o seguinte conteúdo extraído"} \cup document.text))>>]

\* analyzePdfDocumentWithGroq throwing what JSON.parse throws.
analyzePdfDocumentWithGroqResultRethrows(c) ==
    IF c.gateway.threw THEN Threw(c.gateway.error)
    ELSE IF ParsesAsJson(c.gateway.text) /\ c.gateway.text.tag # "jsonNull"
    THEN Returned(Value("documentAnalysis", c.gateway.text, <<>>))
    ELSE Threw("Unexpected token")

\* analyzePdfDocumentWithGroq after the gateway: the parsed JSON (each missing
\* field as its fixed default, 'Não classificado' for the classification), or
\* the fixed 'Erro de processamento' structure when JSON.parse or the reading
\* of the fields throws.
analyzePdfDocumentWithGroqResult(c) ==
    IF c.gateway.threw THEN Threw(c.gateway.error)
    ELSE IF ParsesAsJson(c.gateway.text) /\ c.gateway.text.tag # "jsonNull"
    THEN IF c.gateway.text.tag = "jsonEmpty"
         THEN Returned(Value("documentAnalysis", c.gateway.text, <<"Não classificado">>))
         ELSE Returned(Value("documentAnalysis", c.gateway.text, <<>>))
    ELSE Returned(Value("documentAnalysis", NoText, <<"Erro de processamento">>))

\* generateInvestigationReportWithGroq up to its call of the gateway.
generateInvestigationReportWithGroq(cfg, caseData) ==
    LET c == NewCall("generateInvestigationReportWithGroq", caseData, cfg["groqApiKey"])
    IN  IF cfg["groqApiKey"] = ""
        THEN [c EXCEPT !.pc = "done", !.outcome = Threw("API key not configured")]
        ELSE [c EXCEPT !.pc = "ask",
                       !.messages =
                           <<SystemMessage({}),
                             UserMessage(StringContent(
                                 {"relatório de investigação"} \cup caseData.text))>>]

generateInvestigationReportWithGroqResult(c) ==
    IF c.gateway.threw THEN Threw(c.gateway.error)
    ELSE Returned(Value("text", c.gateway.text, <<>>))

\* processLinkAnalysisDataWithGroq up to its call of the gateway.
processLinkAnalysisDataWithGroq(cfg, file) ==
    LET c == NewCall("processLinkAnalysisDataWithGroq", file, cfg["groqApiKey"])
    IN  IF cfg["groqApiKey"] = ""
        THEN [c EXCEPT !.pc = "done", !.outcome = Threw("API key not configured")]
        ELSE [c EXCEPT !.pc = "ask",
                       !.messages =
                           <<SystemMessage({"vínculos"}),
                             UserMessage(StringContent({"vínculos", "grafo"} \cup file.text))>>]

\* processLinkAnalysisDataWithGroq after the gateway: the parsed graph, or the
\* graph made of the file's words.
processLinkAnalysisDataWithGroqResult(c) ==
    IF c.gateway.threw THEN Threw(c.gateway.error)
    ELSE IF ParsesAsJson(c.gateway.text) /\ HasGraphShape(c.gateway.text)
    THEN Returned(Value("graph", c.gateway.text, <<>>))
    ELSE Returned(Value("graph", NoText, <<"words of the file">>))

\* A caller of makeGroqAIRequest other than groqService's own functions.
DirectResult(c) ==
    IF c.gateway.threw THEN Threw(c.gateway.error)
    ELSE Returned(Value("text", c.gateway.text, <<>>))

\* The caller's code after its await of makeGroqAIRequest.
Resume(c) ==
    [c EXCEPT !.pc = "done",
              !.outcome =
                  CASE c.caller = "transcribeAudioWithGroq" -> transcribeAudioWithGroqResult(c)
                    [] c.caller = "analyzeImageWithGroq" -> analyzeImageWithGroqResult(c)
                    [] c.caller = "analyzePdfDocumentWithGroq" -> analyzePdfDocumentWithGroqResult(c)
                    [] c.caller = "generateInvestigationReportWithGroq" ->
                           generateInvestigationReportWithGroqResult(c)
                    [] c.caller = "processLinkAnalysisDataWithGroq" ->
                           processLinkAnalysisDataWithGroqResult(c)
                    [] OTHER -> DirectResult(c)]

\* A caller at "ask" calls the gateway, which runs up to its fetch; when the
\* gateway settles at once the caller runs on to its end.
Ask(s, c, cfg, env) ==
    IF c.pc # "ask" THEN c
    ELSE LET g == ImportedRequest(s, [c EXCEPT !.pc = "run"], cfg, env)
         IN  IF g.pc = "chat" THEN g ELSE Resume(g)

\* The arguments the pages pass: a name, and the phrases of interest in the
\* text that comes with it (for an audio file, in what is said on it).
AudioFiles == {[name |-> "a.mp3", text |-> {}], [name |-> "b.mp3", text |-> {"áudio"}]}
Images == {[name |-> "photo.png", text |-> {}]}
Documents == {[name |-> "bo.pdf", text |-> {"furto"}], [name |-> "x.pdf", text |-> {}]}
CaseFiles == {[name |-> "case-1", text |-> {}], [name |-> "case-2", text |-> {"imagem"}]}
LinkFiles ==
    {[name |-> "links.csv", text |-> {}], [name |-> "image-links.csv", text |-> {"image"}]}
CanvasOutcomes == {"dark", "bright", "flat", "normal", "failed"}

\* The message lists other callers hand to makeGroqAIRequest.
UserTexts ==
    {{}, {"imagem"}, {"image"}, {"imagem", "boletim de ocorrência"},
     {"imagem", "áudio"}, {"áudio"}, {"relatório de investigação"}, {"vínculos"}}

DirectMessages ==
    {<<SystemMessage({"áudio"}), UserMessage(StringContent(t))>> : t \in UserTexts}
    \cup {<<UserMessage(ArrayContent(<<ImagePart, TextPart({"imagem"})>>))>>,
          <<UserMessage(ArrayContent(<<TextPart({}), TextPart({"imagem"})>>))>>,
          <<UserMessage(StringContent({"imagem"})), UserMessage(StringContent({"áudio"}))>>,
          <<SystemMessage({"imagem"})>>}

DomainCallers ==
    {"transcribeAudioWithGroq", "analyzeImageWithGroq", "enhanceImageWithGroq",
     "analyzePdfDocumentWithGroq", "generateInvestigationReportWithGroq",
     "processLinkAnalysisDataWithGroq"}

\* One call runs at a time; the next starts when the last has ended.
CanStart == call.pc \in {"idle", "done"}

\* A page calls makeGroqAIRequest itself (ManualOccurrenceInput, the audio
\* page's generateReport).
CallMakeGroqAIRequest ==
    /\ CanStart
    /\ \E m \in DirectMessages : \E rf \in BOOLEAN : \E env \in Envs :
         LET cfg == ImportedGet(svc, storage, rf).value
             c == [NewCall("makeGroqAIRequest", NoArg, cfg["groqApiKey"])
                      EXCEPT !.pc = "ask", !.messages = m]
         IN  call' = Ask(svc, c, cfg, env)
    /\ UNCHANGED <<storage, svc, settings, pendingSave, lastCall, procs>>

CallTranscribeAudio ==
    /\ CanStart
    /\ svc = "groqService.ts"
    /\ \E f \in AudioFiles : \E rf \in BOOLEAN :
         call' = transcribeAudioWithGroq(getGroqSettings(storage, rf).value, f)
    /\ UNCHANGED <<storage, svc, settings, pendingSave, lastCall, procs>>

\* The transcription endpoint answers; with segments in the answer the caller
\* goes on to the gateway, which reads the settings again.
WhisperResponse ==
    /\ call.pc = "whisper"
    /\ \E resp \in WhisperResponses : \E rf \in BOOLEAN : \E env \in Envs :
         call' = Ask(svc, transcribeAudioWithGroqOnWhisper(call, resp),
                     getGroqSettings(storage, rf).value, env)
    /\ UNCHANGED <<storage, svc, settings, pendingSave, lastCall, procs>>

CallAnalyzeImage ==
    /\ CanStart
    /\ svc = "groqService.ts"
    /\ \E i \in Images : \E rf1, rf2 \in BOOLEAN : \E env \in Envs :
         call' = Ask(svc, analyzeImageWithGroq(getGroqSettings(storage, rf1).value, i),
                     getGroqSettings(storage, rf2).value, env)
    /\ UNCHANGED <<storage, svc, settings, pendingSave, lastCall, procs>>

CallEnhanceImage ==
    /\ CanStart
    /\ svc = "groqService.ts"
    /\ \E i \in Images : \E rf \in BOOLEAN : \E canvas \in CanvasOutcomes :
         call' = enhanceImageWithGroq(getGroqSettings(storage, rf).value, i, canvas)
    /\ UNCHANGED <<storage, svc, settings, pendingSave, lastCall, procs>>

CallAnalyzePdfDocument ==
    /\ CanStart
    /\ svc = "groqService.ts"
    /\ \E d \in Documents : \E rf1, rf2 \in BOOLEAN : \E env \in Envs :
         call' = Ask(svc, analyzePdfDocumentWithGroq(getGroqSettings(storage, rf1).value, d),
                     getGroqSettings(storage, rf2).value, env)
    /\ UNCHANGED <<storage, svc, settings, pendingSave, lastCall, procs>>

CallGenerateInvestigationReport ==
    /\ CanStart
    /\ svc = "groqService.ts"
    /\ \E d \in CaseFiles : \E rf1, rf2 \in BOOLEAN : \E env \in Envs :
         call' = Ask(svc,
                     generateInvestigationReportWithGroq(getGroqSettings(storage, rf1).value, d),
                     getGroqSettings(storage, rf2).value, env)
    /\ UNCHANGED <<storage, svc, settings, pendingSave, lastCall, procs>>

CallProcessLinkAnalysisData ==
    /\ CanStart
    /\ svc = "groqService.ts"
    /\ \E d \in LinkFiles : \E rf1, rf2 \in BOOLEAN : \E env \in Envs :
         call' = Ask(svc,
                     processLinkAnalysisDataWithGroq(getGroqSettings(storage, rf1).value, d),
                     getGroqSettings(storage, rf2).value, env)
    /\ UNCHANGED <<storage, svc, settings, pendingSave, lastCall, procs>>

\* The chat endpoint answers the POST in flight (or the fetch fails).
ChatResponse ==
    /\ call.pc = "chat"
    /\ \E resp \in ChatResponses : \E env \in Envs :
         LET g == ImportedOnResponse(svc, call, resp, env)
         IN  call' = IF g.pc = "chat" THEN g ELSE Resume(g)
    /\ UNCHANGED <<storage, svc, settings, pendingSave, lastCall, procs>>

\* The settings a gateway run starts from: none stored, the defaults stored, or
\* a record with an API key stored.
GatewayStorage ==
    {[k \in StorageKeys |-> IF k = SettingsKey THEN t ELSE NullText] :
        t \in {NullText,
               JSON_stringify(DefaultSettings),
               JSON_stringify(Spread(DefaultSettings, [groqApiKey |-> "gsk_live"]))}}

InitGateway ==
    /\ storage \in GatewayStorage
    /\ svc \in Services
    /\ settings = DEFAULT_GROQ_SETTINGS
    /\ pendingSave = NoPendingSave
    /\ lastCall = [op |-> "none"]
    /\ call = IdleCall
    /\ procs = [t \in Tabs |-> IdleProc]

NextGateway ==
    \/ CallMakeGroqAIRequest
    \/ CallTranscribeAudio
    \/ WhisperResponse
    \/ CallAnalyzeImage
    \/ CallEnhanceImage
    \/ CallAnalyzePdfDocument
    \/ CallGenerateInvestigationReport
    \/ CallProcessLinkAnalysisData
    \/ ChatResponse

SpecGateway == InitGateway /\ [][NextGateway]_vars

-----------------------------------------------------------------------------
(* Claims about the gateway and its callers *)

\* The mock a domain caller of groqService.ts returns when no key is stored.
MockWithoutKey(c) ==
    IF c.caller = "transcribeAudioWithGroq"
    THEN getMockAudioTranscription(c.arg.name)
    ELSE getMockDocumentAnalysis(c.arg.name, c.arg.text)

\* C4: with an empty API key, every domain caller of groqService.ts ends at
\* once, with no POST to the chat or to the transcription endpoint, and either
\* throws 'API key not configured' or returns mock data fixed by its arguments
\* alone (whatever the clock and the random generator give).
C4_NoKeyNoNetwork ==
    (/\ svc = "groqService.ts"
     /\ call.caller \in DomainCallers
     /\ call.key = "") =>
        /\ call.pc = "done"
        /\ call.posts = 0
        /\ call.whisperPosts = 0
        /\ \/ /\ call.outcome.kind = "threw"
              /\ call.outcome.value.detail = <<"API key not configured">>
           \/ /\ call.outcome.kind = "returned"
              /\ call.caller \in {"transcribeAudioWithGroq", "analyzePdfDocumentWithGroq"}
              /\ call.outcome.value = MockWithoutKey(call)

\* C4 witness: a document was analysed with no key stored and the mock
\* analysis came back.
C4_Witness ==
    /\ svc = "groqService.ts"
    /\ call.caller = "analyzePdfDocumentWithGroq"
    /\ call.key = ""
    /\ call.pc = "done"
    /\ call.outcome.kind = "returned"
    /\ call.outcome.value.detail = <<"bo.pdf", "Furto">>

\* The fixed mock OCR/face/plate JSON payload.
MockImagePayload == Text("mock", "image", <<>>)

\* C5 as stated: with an empty API key, a makeGroqAIRequest call whose last
\* user message holds "imagem" returns the mock image payload, with no POST.
C5_ImagemGivesImageMockAsStated ==
    (/\ svc = "groqService.ts"
     /\ call.pc = "done"
     /\ call.gkey = ""
     /\ "imagem" \in WholeUserText(call.messages)) =>
        /\ call.posts = 0
        /\ call.gateway = Settled(MockImagePayload)

\* C5 amended: with an empty API key, a makeGroqAIRequest call of
\* groqService.ts returns the mock image payload, with no POST, when the text
\* of its last user message (the string, or the first part of type text of an
\* array) holds "imagem" and holds neither 'boletim de ocorrência' nor 'Analise
\* o seguinte conteúdo extraído': those two are tested first and give the
\* occurrence mock.
C5_ImagemGivesImageMock ==
    (/\ svc = "groqService.ts"
     /\ call.pc = "done"
     /\ call.gkey = ""
     /\ Includes(UserContent(call.messages), "imagem")
     /\ ~Includes(UserContent(call.messages), "boletim de ocorrência")
     /\ ~Includes(UserContent(call.messages), "Analise o seguinte conteúdo extraído")) =>
        /\ call.posts = 0
        /\ call.gateway = Settled(MockImagePayload)

\* C5 witness: a message holding "imagem" and 'áudio' got the image mock.
C5_Witness ==
    /\ svc = "groqService.ts"
    /\ call.caller = "makeGroqAIRequest"
    /\ call.pc = "done"
    /\ call.gkey = ""
    /\ UserContent(call.messages) = {"imagem", "áudio"}
    /\ call.posts = 0
    /\ call.outcome = Returned(Value("text", MockImagePayload, <<>>))

\* The mock result of each caller's domain.
DomainMock(c, env) ==
    CASE c.caller = "transcribeAudioWithGroq" -> getMockAudioTranscription(c.arg.name)
      [] c.caller = "analyzeImageWithGroq" -> Value("imageAnalysis", MockImagePayload, <<>>)
      [] c.caller = "analyzePdfDocumentWithGroq" ->
             getMockDocumentAnalysis(c.arg.name, c.arg.text)
      [] c.caller = "generateInvestigationReportWithGroq" ->
             Value("text", Text("mock", "report", <<env.now, env.rand>>), <<>>)
      [] c.caller = "processLinkAnalysisDataWithGroq" ->
             Value("graph", Text("mock", "graph", <<>>), <<>>)
      [] OTHER -> Value("text", generateMockAIResponse(c.messages, env), <<>>)

\* C6 as stated: when the chat endpoint answers a POST (sent with a key) with
\* a non-2xx status, the caller either throws a transport error or returns the
\* mock result of its domain.
C6_Non2xxThrowsOrDomainMock ==
    (call.pc = "done" /\ call.status = "non2xx") =>
        \/ /\ call.outcome.kind = "threw"
           /\ call.outcome.value.detail # <<"API key not configured">>
        \/ /\ call.outcome.kind = "returned"
           /\ \E env \in Envs : call.outcome.value = DomainMock(call, env)

\* C6: the run that breaks it: a document analysis whose POST got a non-2xx
\* status returned the 'Erro de processamento' structure.
C6_ErrorStructureReturned ==
    /\ svc = "groqService.ts"
    /\ call.caller = "analyzePdfDocumentWithGroq"
    /\ call.pc = "done"
    /\ call.status = "non2xx"
    /\ call.gkey = "gsk_live"
    /\ call.outcome = Returned(Value("documentAnalysis", NoText, <<"Erro de processamento">>))

\* C7: a makeGroqAIRequest call sends at most one POST to the chat endpoint:
\* exactly one when the key it read is non-empty, none when it is empty, and
\* none is sent again after a failed one.
C7_SinglePost ==
    /\ call.posts <= 1
    /\ call.gkey \in {"unread", ""} => call.posts = 0
    /\ call.gkey \notin {"unread", ""} => call.posts = 1
    /\ call.status \in {"non2xx", "neterr", "malformed"} => call.pc = "done" /\ call.posts = 1

\* C7 witness: a call with a key ended after a failed POST, having sent one.
C7_Witness ==
    /\ call.caller = "makeGroqAIRequest"
    /\ call.pc = "done"
    /\ call.gkey = "gsk_live"
    /\ call.status = "neterr"
    /\ call.posts = 1

-----------------------------------------------------------------------------
(* The analysis stores of databaseService.ts and the pages that fill them *)

Cases == {"c1", "c2"}
Files == {"f1", "f2"}
NoCase == ""

\* The analysis records the model stores: what identifies them.
AnalysisRecords == [caseId : Cases, filename : Files]

\* At most this many records are stored or being made, all domains together.
MaxRecords == 2

Domains == {"occurrence", "audio", "image"}

DomainKey(domain) ==
    CASE domain = "occurrence" -> OccurrencesKey
      [] domain = "audio" -> AudioKey
      [] OTHER -> ImageKey

\* saveOccurrenceData: it logs and returns true; nothing is written.
saveOccurrenceData(store, data) == [ok |-> TRUE, store |-> store]

\* getOccurrencesByCaseId: [threw, value].
getOccurrencesByCaseId(store, caseId, fault) ==
    LET existingData == getItem(store, OccurrencesKey, fault)
    IN  IF existingData.exc \/ ~Truthy(existingData.val)
        THEN [threw |-> FALSE, value |-> <<>>]
        ELSE LET occurrences == JSON_parse(existingData.val)
             IN  IF occurrences.exc \/ ~occurrences.isArray
                 THEN [threw |-> FALSE, value |-> <<>>]
                 ELSE [threw |-> FALSE,
                       value |-> SelectSeq(occurrences.val, LAMBDA o : o["caseId"] = caseId)]

\* saveAudioTranscription starting from an empty list when what is stored is
\* no JSON array.
saveAudioTranscriptionStartsAfresh(store, data, rfault, wfault) ==
    LET p == JSON_parse(store[AudioKey])
        transcriptions == IF p.exc \/ ~p.isArray THEN <<>> ELSE p.val
        w == setItem(store, AudioKey,
                     JSON_stringifyArray(Append(transcriptions, data)), wfault)
    IN  [ok |-> ~w.exc, store |-> w.store]

\* saveAudioTranscription: the stored array is read, the record pushed, the
\* array written back; any exception on the way gives false.
saveAudioTranscription(store, data, rfault, wfault) ==
    LET existingData == getItem(store, AudioKey, rfault)
        transcriptions == IF Truthy(existingData.val)
                          THEN JSON_parse(existingData.val)
                          ELSE [exc |-> FALSE, isArray |-> TRUE, val |-> <<>>]
    IN  IF existingData.exc \/ transcriptions.exc \/ ~transcriptions.isArray
        THEN [ok |-> FALSE, store |-> store]
        ELSE LET w == setItem(store, AudioKey,
                              JSON_stringifyArray(Append(transcriptions.val, data)), wfault)
             IN  [ok |-> ~w.exc, store |-> w.store]

\* getAudioTranscriptionsByCaseId giving back every stored record.
getAudioTranscriptionsByCaseIdUnfiltered(store, caseId, fault) ==
    LET existingData == getItem(store, AudioKey, fault)
    IN  IF existingData.exc \/ ~Truthy(existingData.val)
        THEN [threw |-> FALSE, value |-> <<>>]
        ELSE LET transcriptions == JSON_parse(existingData.val)
             IN  IF transcriptions.exc \/ ~transcriptions.isArray
                 THEN [threw |-> FALSE, value |-> <<>>]
                 ELSE [threw |-> FALSE, value |-> transcriptions.val]

getAudioTranscriptionsByCaseId(store, caseId, fault) ==
    LET existingData == getItem(store, AudioKey, fault)
    IN  IF existingData.exc \/ ~Truthy(existingData.val)
        THEN [threw |-> FALSE, value |-> <<>>]
        ELSE LET transcriptions == JSON_parse(existingData.val)
             IN  IF transcriptions.exc \/ ~transcriptions.isArray
                 THEN [threw |-> FALSE, value |-> <<>>]
                 ELSE [threw |-> FALSE,
                       value |-> SelectSeq(transcriptions.val, LAMBDA t : t["caseId"] = caseId)]

\* saveImageAnalysis writing an array that holds the new record alone.
saveImageAnalysisReplaces(store, data, rfault, wfault) ==
    LET existingData == getItem(store, ImageKey, rfault)
        analyses == IF Truthy(existingData.val)
                    THEN JSON_parse(existingData.val)
                    ELSE [exc |-> FALSE, isArray |-> TRUE, val |-> <<>>]
    IN  IF existingData.exc \/ analyses.exc \/ ~analyses.isArray
        THEN [ok |-> FALSE, store |-> store]
        ELSE LET w == setItem(store, ImageKey, JSON_stringifyArray(<<data>>), wfault)
             IN  [ok |-> ~w.exc, store |-> w.store]

saveImageAnalysis(store, data, rfault, wfault) ==
    LET existingData == getItem(store, ImageKey, rfault)
        analyses == IF Truthy(existingData.val)
                    THEN JSON_parse(existingData.val)
                    ELSE [exc |-> FALSE, isArray |-> TRUE, val |-> <<>>]
    IN  IF existingData.exc \/ analyses.exc \/ ~analyses.isArray
        THEN [ok |-> FALSE, store |-> store]
        ELSE LET w == setItem(store, ImageKey,
                              JSON_stringifyArray(Append(analyses.val, data)), wfault)
             IN  [ok |-> ~w.exc, store |-> w.store]

getImageAnalysesByCaseId(store, caseId, fault) ==
    LET existingData == getItem(store, ImageKey, fault)
    IN  IF existingData.exc \/ ~Truthy(existingData.val)
        THEN [threw |-> FALSE, value |-> <<>>]
        ELSE LET analyses == JSON_parse(existingData.val)
             IN  IF analyses.exc \/ ~analyses.isArray
                 THEN [threw |-> FALSE, value |-> <<>>]
                 ELSE [threw |-> FALSE,
                       value |-> SelectSeq(analyses.val, LAMBDA a : a["caseId"] = caseId)]

\* The domain's get...ByCaseId.
GetByCaseId(domain, store, caseId, fault) ==
    CASE domain = "occurrence" -> getOccurrencesByCaseId(store, caseId, fault)
      [] domain = "audio" -> getAudioTranscriptionsByCaseId(store, caseId, fault)
      [] OTHER -> getImageAnalysesByCaseId(store, caseId, fault)

\* The array stored under a key (empty when the key holds none).
StoredArray(store, key) ==
    LET p == JSON_parse(store[key])
    IN  IF p.exc \/ ~p.isArray THEN <<>> ELSE p.val

\* analyses.find(a => a.filename === name) finds a record.
FindsFilename(records, name) ==
    \E i \in DOMAIN records : records[i]["filename"] = name

\* The records stored and in the making, audio and image together.
RecordsInHand ==
    LET key(t) == DomainKey(procs[t].domain)
        held(t) == IF procs[t].pc = "idle" \/ procs[t].caseId = NoCase THEN 0
                   ELSE IF procs[t].pc = "writing" /\ storage[key(t)] # procs[t].read
                        THEN 1 + Len(StoredArray([storage EXCEPT ![key(t)] = procs[t].read],
                                                 key(t)))
                   ELSE 1
    IN  Len(StoredArray(storage, AudioKey)) + Len(StoredArray(storage, ImageKey))
            + held("tabA") + held("tabB")

\* processImage refusing to start while another invocation is under way.
processImageExclusive(t) ==
    /\ procs[t].pc = "idle"
    /\ \A u \in Tabs : procs[u].pc = "idle"
    /\ \E c \in Cases : \E f \in Files : \E rf \in BOOLEAN :
         LET analyses == getImageAnalysesByCaseId(storage, c, rf).value
         IN  IF FindsFilename(analyses, f)
             THEN /\ procs' = procs
                  /\ lastCall' = [op |-> "page", result |-> "retrieved"]
             ELSE /\ RecordsInHand < MaxRecords
                  /\ procs' = [procs EXCEPT ![t] = [pc |-> "analysing", domain |-> "image",
                                                    caseId |-> c, filename |-> f,
                                                    read |-> NullText]]
                  /\ lastCall' = [op |-> "page", result |-> "started"]
    /\ UNCHANGED <<storage, svc, settings, pendingSave, call>>

\* processImage of the image page, up to its first await that leaves the tab:
\* without a case it returns; an analysis of the file found for the case is
\* shown again; otherwise the image goes to enhancement and analysis.
processImage(t) ==
    /\ procs[t].pc = "idle"
    /\ \E c \in Cases \cup {NoCase} : \E f \in Files : \E rf \in BOOLEAN :
         LET analyses == getImageAnalysesByCaseId(storage, c, rf).value
         IN  IF c = NoCase
             THEN /\ procs' = procs
                  /\ lastCall' = [op |-> "page", result |-> "no case"]
             ELSE IF FindsFilename(analyses, f)
             THEN /\ procs' = procs
                  /\ lastCall' = [op |-> "page", result |-> "retrieved"]
             ELSE /\ RecordsInHand < MaxRecords
                  /\ procs' = [procs EXCEPT ![t] = [pc |-> "analysing", domain |-> "image",
                                                    caseId |-> c, filename |-> f,
                                                    read |-> NullText]]
                  /\ lastCall' = [op |-> "page", result |-> "started"]
    /\ UNCHANGED <<storage, svc, settings, pendingSave, call>>

\* A save whose setItem writes what the tab has in hand whatever the key holds
\* by then is what the code does; this one reads the key again before it
\* writes.
SaveWriteMerged(store, domain, read, data, wfault) ==
    LET saved == IF domain = "image" THEN saveImageAnalysis(store, data, FALSE, wfault)
                 ELSE saveAudioTranscription(store, data, FALSE, wfault)
    IN  [ok |-> saved.ok, store |-> saved.store]

\* The setItem of saveImageAnalysis / saveAudioTranscription in a tab that read
\* the text `read` under the key: the array made of that text and the record is
\* written over whatever another tab has stored since.
SaveWrite(store, domain, read, data, wfault) ==
    LET key == DomainKey(domain)
        view == [store EXCEPT ![key] = read]
        saved == IF domain = "image" THEN saveImageAnalysis(view, data, FALSE, wfault)
                 ELSE saveAudioTranscription(view, data, FALSE, wfault)
    IN  [ok |-> saved.ok,
         store |-> IF saved.ok THEN [store EXCEPT ![key] = saved.store[key]] ELSE store]

\* The getItem, JSON.parse and push of a save succeed on what the key holds.
SaveReads(store, domain, data, rfault) ==
    IF domain = "image" THEN saveImageAnalysis(store, data, rfault, FALSE).ok
    ELSE saveAudioTranscription(store, data, rfault, FALSE).ok

\* processImage from the end of enhanceImageWithGroq and analyzeImageWithGroq:
\* when one of them threw nothing is saved; otherwise saveImageAnalysis runs up
\* to its setItem (localStorage is shared with the other tab, which runs on its
\* own between this tab's getItem and setItem).
processImageAnalysed(t) ==
    /\ procs[t].pc = "analysing"
    /\ procs[t].domain = "image"
    /\ \E analysed, rf \in BOOLEAN :
         LET data == [caseId |-> procs[t].caseId, filename |-> procs[t].filename]
             stored == StoredArray(storage, ImageKey)
         IN  IF ~analysed
             THEN /\ procs' = [procs EXCEPT ![t] = IdleProc]
                  /\ lastCall' = [op |-> "page", result |-> "failed"]
             ELSE IF ~SaveReads(storage, "image", data, rf)
             THEN /\ procs' = [procs EXCEPT ![t] = IdleProc]
                  /\ lastCall' = [op |-> "saveAnalysis", domain |-> "image", data |-> data,
                                  reported |-> FALSE, read |-> stored, before |-> stored]
             ELSE /\ procs' = [procs EXCEPT ![t].pc = "writing", ![t].read = storage[ImageKey]]
                  /\ lastCall' = [op |-> "page", result |-> "saving"]
    /\ UNCHANGED <<storage, svc, settings, pendingSave, call>>

\* The setItem of the save a tab has begun, and the end of its handler.
SaveWritten(t) ==
    /\ procs[t].pc = "writing"
    /\ \E wf \in BOOLEAN :
         LET data == [caseId |-> procs[t].caseId, filename |-> procs[t].filename]
             key == DomainKey(procs[t].domain)
             saved == SaveWrite(storage, procs[t].domain, procs[t].read, data, wf)
         IN  /\ storage' = saved.store
             /\ lastCall' = [op |-> "saveAnalysis", domain |-> procs[t].domain,
                             data |-> data, reported |-> saved.ok,
                             read |-> StoredArray([storage EXCEPT ![key] = procs[t].read], key),
                             before |-> StoredArray(storage, key)]
    /\ procs' = [procs EXCEPT ![t] = IdleProc]
    /\ UNCHANGED <<svc, settings, pendingSave, call>>

\* handleTranscribe of the audio page, up to transcribeAudioWithGroq: with a
\* case, a transcription of the file found for it is shown again.
handleTranscribe(t) ==
    /\ procs[t].pc = "idle"
    /\ \E c \in Cases \cup {NoCase} : \E f \in Files : \E rf \in BOOLEAN :
         LET transcriptions == getAudioTranscriptionsByCaseId(storage, c, rf).value
         IN  IF c # NoCase /\ FindsFilename(transcriptions, f)
             THEN /\ procs' = procs
                  /\ lastCall' = [op |-> "page", result |-> "retrieved"]
             ELSE /\ c # NoCase => RecordsInHand < MaxRecords
                  /\ procs' = [procs EXCEPT ![t] = [pc |-> "analysing", domain |-> "audio",
                                                    caseId |-> c, filename |-> f,
                                                    read |-> NullText]]
                  /\ lastCall' = [op |-> "page", result |-> "started"]
    /\ UNCHANGED <<storage, svc, settings, pendingSave, call>>

\* handleTranscribe from the end of transcribeAudioWithGroq: with a case, the
\* transcription is saved: saveAudioTranscription runs up to its setItem.
handleTranscribeDone(t) ==
    /\ procs[t].pc = "analysing"
    /\ procs[t].domain = "audio"
    /\ \E transcribed, rf \in BOOLEAN :
         LET data == [caseId |-> procs[t].caseId, filename |-> procs[t].filename]
             stored == StoredArray(storage, AudioKey)
         IN  IF ~(transcribed /\ procs[t].caseId # NoCase)
             THEN /\ procs' = [procs EXCEPT ![t] = IdleProc]
                  /\ lastCall' = [op |-> "page",
                                  result |-> IF transcribed THEN "not saved" ELSE "failed"]
             ELSE IF ~SaveReads(storage, "audio", data, rf)
             THEN /\ procs' = [procs EXCEPT ![t] = IdleProc]
                  /\ lastCall' = [op |-> "saveAnalysis", domain |-> "audio", data |-> data,
                                  reported |-> FALSE, read |-> stored, before |-> stored]
             ELSE /\ procs' = [procs EXCEPT ![t].pc = "writing", ![t].read = storage[AudioKey]]
                  /\ lastCall' = [op |-> "page", result |-> "saving"]
    /\ UNCHANGED <<storage, svc, settings, pendingSave, call>>

\* A call of saveOccurrenceData with an analysed occurrence.
SaveOccurrence ==
    /\ \E data \in AnalysisRecords :
         LET saved == saveOccurrenceData(storage, data)
         IN  /\ storage' = saved.store
             /\ lastCall' = [op |-> "saveAnalysis", domain |-> "occurrence",
                             data |-> data, reported |-> saved.ok,
                             read |-> StoredArray(storage, OccurrencesKey),
                             before |-> StoredArray(storage, OccurrencesKey)]
    /\ UNCHANGED <<svc, settings, pendingSave, call, procs>>

\* Some analysis record is stored.
HoldsRecords(store) ==
    Len(StoredArray(store, AudioKey)) + Len(StoredArray(store, ImageKey)) > 0

\* handleClearLocalStorage that clears and does not go on to save the settings.
handleClearLocalStorageNoRestore ==
    /\ \E rf, wf \in BOOLEAN :
         LET apiSettings == ImportedGet(svc, storage, rf).value
             cleared == [k \in StorageKeys |-> NullText]
         IN  /\ storage' = cleared
             /\ lastCall' = [op |-> "clear", apiSettings |-> apiSettings, readRaised |-> rf,
                             raised |-> wf, hadRecords |-> HoldsRecords(storage)]
    /\ UNCHANGED <<svc, settings, pendingSave, call, procs>>

\* handleClearLocalStorage of the settings page, its confirmation given: the
\* settings are read, localStorage is cleared, the settings are saved again.
handleClearLocalStorage ==
    /\ \E rf, wf \in BOOLEAN :
         LET apiSettings == ImportedGet(svc, storage, rf).value
             cleared == [k \in StorageKeys |-> NullText]
         IN  /\ storage' = ImportedSave(svc, cleared, apiSettings, wf).store
             /\ lastCall' = [op |-> "clear", apiSettings |-> apiSettings, readRaised |-> rf,
                             raised |-> wf, hadRecords |-> HoldsRecords(storage)]
    /\ UNCHANGED <<svc, settings, pendingSave, call, procs>>

\* What a read of a domain's key meets.
ArrayCondition(store, key, fault) ==
    IF fault THEN "raised"
    ELSE IF store[key].kind = "null" THEN "absent"
    ELSE IF store[key].kind = "arr" THEN "array"
    ELSE "unparsable"

\* Any consumer's call of a get...ByCaseId.
ReadByCaseId ==
    /\ \E domain \in Domains : \E c \in Cases : \E rf \in BOOLEAN :
         LET got == GetByCaseId(domain, storage, c, rf)
         IN  lastCall' = [op |-> "getByCaseId", domain |-> domain, caseId |-> c,
                          result |-> got.value, threw |-> got.threw,
                          cond |-> ArrayCondition(storage, DomainKey(domain), rf)]
    /\ UNCHANGED <<storage, svc, settings, pendingSave, call, procs>>

\* What the domain keys hold before the pages run: nothing, a text that is no
\* JSON, the JSON text of an object, or (under the occurrences key, which no
\* code of the repository writes) an array of records.
ForeignOccurrences ==
    <<[caseId |-> "c1", filename |-> "f2"], [caseId |-> "c2", filename |-> "f1"],
      [caseId |-> "c1", filename |-> "f1"]>>

ObjectText == JSON_stringify([caseId |-> "c1"])

StoreStorage ==
    {[k \in StorageKeys |-> IF k \in {OccurrencesKey, AudioKey, ImageKey} THEN t
                            ELSE NullText] :
        t \in {NullText, RawText, ObjectText}}
    \cup {[k \in StorageKeys |->
              IF k = OccurrencesKey THEN JSON_stringifyArray(ForeignOccurrences)
              ELSE IF k \in {AudioKey, ImageKey} THEN ObjectText
              ELSE NullText]}

InitStore ==
    /\ storage \in StoreStorage
    /\ svc = "groqService.ts"
    /\ settings = DEFAULT_GROQ_SETTINGS
    /\ pendingSave = NoPendingSave
    /\ lastCall = [op |-> "none"]
    /\ call = IdleCall
    /\ procs = [t \in Tabs |-> IdleProc]

NextStore ==
    \/ \E t \in Tabs : processImage(t)
    \/ \E t \in Tabs : processImageAnalysed(t)
    \/ \E t \in Tabs : handleTranscribe(t)
    \/ \E t \in Tabs : handleTranscribeDone(t)
    \/ \E t \in Tabs : SaveWritten(t)
    \/ SaveOccurrence
    \/ handleClearLocalStorage
    \/ ReadByCaseId

SpecStore == InitStore /\ [][NextStore]_vars

-----------------------------------------------------------------------------
(* Claims about the analysis stores *)

\* No two entries of the array hold the same case and file name.
OnePerCaseAndFile(records) ==
    \A i, j \in DOMAIN records :
        (/\ records[i]["caseId"] = records[j]["caseId"]
         /\ records[i]["filename"] = records[j]["filename"]) => i = j

\* C8 as stated: after any sequence of image analyses and audio
\* transcriptions, the stored array of each domain holds at most one record
\* for any (caseId, filename) pair.
C8_OneRecordPerCaseAndFile ==
    /\ OnePerCaseAndFile(StoredArray(storage, ImageKey))
    /\ OnePerCaseAndFile(StoredArray(storage, AudioKey))

\* C8: the state that breaks it: the image array holds the same case and file
\* name twice.
C8_DuplicateStored ==
    /\ Len(StoredArray(storage, ImageKey)) = 2
    /\ StoredArray(storage, ImageKey)[1] = StoredArray(storage, ImageKey)[2]
    /\ lastCall.op = "saveAnalysis"
    /\ lastCall.reported

\* C9 as stated: in every domain, once the save of an analysis for a case has
\* reported success, the record is an entry of the domain's stored array and
\* the domain's get...ByCaseId returns it for that case.
C9_SavedIsStored ==
    (lastCall.op = "saveAnalysis" /\ lastCall.reported) =>
        LET got == GetByCaseId(lastCall.domain, storage, lastCall.data["caseId"], FALSE).value
        IN  \E i \in DOMAIN got : got[i] = lastCall.data

\* C9: the state that breaks it: saveOccurrenceData reported success for a
\* case and getOccurrencesByCaseId returns nothing for it.
C9_OccurrenceNotStored ==
    /\ lastCall.op = "saveAnalysis"
    /\ lastCall.domain = "occurrence"
    /\ lastCall.reported
    /\ lastCall.data["caseId"] = "c1"
    /\ storage[OccurrencesKey] = NullText
    /\ getOccurrencesByCaseId(storage, "c1", FALSE).value = <<>>

\* The entries of a stored array whose caseId is the one asked for, in order.
MatchingRecords(store, key, caseId) ==
    LET body == store[key].body
        kept == SelectSeq([i \in 1..Len(body) |-> i],
                          LAMBDA i : \E n \in DOMAIN body[i] :
                                         body[i][n] = <<"caseId", caseId>>)
    IN  [n \in 1..Len(kept) |-> PairsObject(body[kept[n]])]

\* C10 as stated: each get...ByCaseId returns exactly the stored records whose
\* caseId is the argument, in stored order, and returns the empty list, without
\* throwing, when the key is absent or holds no array.
C10_ExactlyTheMatchingAsStated ==
    lastCall.op = "getByCaseId" =>
        LET key == DomainKey(lastCall.domain)
        IN  /\ ~lastCall.threw
            /\ lastCall.result =
                   IF storage[key].kind = "arr"
                   THEN MatchingRecords(storage, key, lastCall.caseId)
                   ELSE <<>>

\* C10 amended: each get...ByCaseId never throws; when its read of the storage
\* key does not raise it returns exactly the stored records whose caseId is the
\* argument, in stored order, and the empty list when the key is absent or
\* holds no array; when the read raises it returns the empty list, whatever is
\* stored.
C10_ExactlyTheMatching ==
    lastCall.op = "getByCaseId" =>
        LET key == DomainKey(lastCall.domain)
        IN  /\ ~lastCall.threw
            /\ lastCall.cond = "array" =>
                   lastCall.result = MatchingRecords(storage, key, lastCall.caseId)
            /\ lastCall.cond \in {"absent", "unparsable", "raised"} =>
                   lastCall.result = <<>>

\* C10 witness: a read of the audio array that holds records of both cases gave
\* back the one of the case asked for.
C10_Witness ==
    /\ lastCall.op = "getByCaseId"
    /\ lastCall.domain = "audio"
    /\ lastCall.cond = "array"
    /\ Len(StoredArray(storage, AudioKey)) = 2
    /\ Len(lastCall.result) = 1
    /\ lastCall.result[1]["caseId"] = lastCall.caseId

-----------------------------------------------------------------------------
(* What the groqService functions compute from a response *)

\* A string is the sequence of its characters.
UpperCase ==
    {"A", "B", "C", "D", "E", "F", "G", "H", "I", "J", "K", "L", "M",
     "N", "O", "P", "Q", "R", "S", "T", "U", "V", "W", "X", "Y", "Z"}
Digits == {"0", "1", "2", "3", "4", "5", "6", "7", "8", "9"}
WhiteSpace == {" ", "\t", "\n"}

\* s.trim(): the string without its leading and trailing white space.
RECURSIVE trimStart(_)
trimStart(s) ==
    IF s # <<>> /\ Head(s) \in WhiteSpace THEN trimStart(Tail(s)) ELSE s

RECURSIVE trimEnd(_)
trimEnd(s) ==
    IF s # <<>> /\ s[Len(s)] \in WhiteSpace THEN trimEnd(SubSeq(s, 1, Len(s) - 1)) ELSE s

trim(s) == trimEnd(trimStart(s))

\* The plate pattern with its optional character given up before it is tried.
plateRegexExecLazy(text, i) ==
    LET at(k) == IF k <= Len(text) THEN text[k] ELSE ""
        rest(j) ==
            IF at(j) \notin Digits THEN 0
            ELSE IF at(j + 1) \in Digits /\ at(j + 2) \in Digits
            THEN j + 3
            ELSE IF /\ at(j + 1) \in Digits \cup UpperCase
                    /\ at(j + 2) \in Digits
                    /\ at(j + 3) \in Digits
            THEN j + 4
            ELSE 0
        separated == IF at(i + 3) = "-" \/ at(i + 3) \in WhiteSpace THEN rest(i + 4) ELSE 0
        joined == rest(i + 3)
    IN  IF ~(at(i) \in UpperCase /\ at(i + 1) \in UpperCase /\ at(i + 2) \in UpperCase)
        THEN 0
        ELSE IF separated # 0 THEN separated - i
        ELSE IF joined # 0 THEN joined - i
        ELSE 0

\* plateRegex tried at index i: the length of the match that begins there, 0
\* when there is none.  Both optional parts are greedy: the longer alternative
\* is tried first and given up when the rest does not match.
plateRegexExec(text, i) ==
    LET at(k) == IF k <= Len(text) THEN text[k] ELSE ""
        rest(j) ==
            IF at(j) \notin Digits THEN 0
            ELSE IF /\ at(j + 1) \in Digits \cup UpperCase
                    /\ at(j + 2) \in Digits
                    /\ at(j + 3) \in Digits
            THEN j + 4
            ELSE IF at(j + 1) \in Digits /\ at(j + 2) \in Digits
            THEN j + 3
            ELSE 0
        separated == IF at(i + 3) = "-" \/ at(i + 3) \in WhiteSpace THEN rest(i + 4) ELSE 0
        joined == rest(i + 3)
    IN  IF ~(at(i) \in UpperCase /\ at(i + 1) \in UpperCase /\ at(i + 2) \in UpperCase)
        THEN 0
        ELSE IF separated # 0 THEN separated - i
        ELSE IF joined # 0 THEN joined - i
        ELSE 0

\* text.match(plateRegex) || []: with the g flag the matches are taken from
\* left to right, each search starting where the last match ended.
RECURSIVE plateRegexMatch(_, _)
plateRegexMatch(text, i) ==
    IF i > Len(text) THEN <<>>
    ELSE LET n == plateRegexExec(text, i)
         IN  IF n = 0 THEN plateRegexMatch(text, i + 1)
             ELSE <<SubSeq(text, i, i + n - 1)>> \o plateRegexMatch(text, i + n)

\* plate.replace(/[-\s]/g, '')
cleanedPlate(plate) ==
    SelectSeq(plate, LAMBDA ch : ch # "-" /\ ch \notin WhiteSpace)

MapSeq(s, Op(_)) == [k \in 1..Len(s) |-> Op(s[k])]

\* The reply of the model as analyzeImageWithGroq reads it: form "prose" when
\* JSON.parse throws, "null" when it gives null, "json" when it gives an object
\* with the fields ocr_text and license_plates.  raw is the reply as a string.
\* analyzeImageWithGroq from JSON.parse on; the faces are left out.
analyzeImageWithGroqParse(reply) ==
    IF reply.form = "json"
    THEN [ocrText |-> reply.ocr_text,
          licensePlates |->
              IF Len(reply.license_plates) = 0 /\ reply.ocr_text # <<>>
              THEN MapSeq(plateRegexMatch(reply.ocr_text, 1), cleanedPlate)
              ELSE reply.license_plates,
          salvaged |-> Len(reply.license_plates) = 0 /\ reply.ocr_text # <<>>]
    ELSE [ocrText |-> reply.raw,
          licensePlates |-> MapSeq(plateRegexMatch(reply.raw, 1), cleanedPlate),
          salvaged |-> TRUE]

\* The pieces the texts of the replies are made of.
PlateFragments ==
    {<<"A", "B", "C", "-", "1">>, <<"A", "B", "C", "1">>, <<"A", "B", "C">>,
     <<"2", "3">>, <<"D", "2", "3">>, <<"4">>, <<"-">>, <<" ">>, <<"x">>}

MaxFragments == 4

RECURSIVE Concatenations(_, _)
Concatenations(fragments, n) ==
    IF n = 0 THEN {<<>>}
    ELSE LET shorter == Concatenations(fragments, n - 1)
         IN  shorter \cup {s \o f : s \in shorter, f \in fragments}

PlateTexts == Concatenations(PlateFragments, MaxFragments)

ImageReplies ==
    {[form |-> f, raw |-> IF f = "prose" THEN t ELSE <<>>,
      ocr_text |-> IF f = "json" THEN t ELSE <<>>, license_plates |-> <<>>] :
        f \in {"prose", "json"}, t \in PlateTexts}
    \cup {[form |-> "null", raw |-> <<"n", "u", "l", "l">>,
           ocr_text |-> <<>>, license_plates |-> <<>>]}
    \cup {[form |-> "json", raw |-> <<>>, ocr_text |-> t,
            license_plates |-> <<<<"X", "Y", "Z", "9", "9", "9", "9">>>>] :
            t \in Concatenations(PlateFragments, 2)}

\* The characters that end a sentence: the class [.!?] of the split.
Terminal == {".", "!", "?"}

\* text.split(/[.!?]+/): the pieces between the runs of terminal characters,
\* the empty piece before a leading run and after a trailing run included.
\* piece is the piece being read, inRun tells that the last character was
\* terminal.
RECURSIVE split(_, _, _)
split(text, piece, inRun) ==
    IF text = <<>> THEN <<piece>>
    ELSE IF Head(text) \in Terminal
    THEN IF inRun THEN split(Tail(text), <<>>, TRUE)
         ELSE <<piece>> \o split(Tail(text), <<>>, TRUE)
    ELSE split(Tail(text), Append(piece, Head(text)), FALSE)

\* `Speaker ${n}`
Speaker(n) == IF n = 1 THEN "Speaker 1" ELSE "Speaker 2"

\* The synthetic segments with the blank sentences kept.
syntheticSegmentsOfAllPieces(text) ==
    LET sentences == split(text, <<>>, FALSE)
    IN  [k \in 1..Len(sentences) |->
            [start |-> (k - 1) * 5, end |-> k * 5,
             speaker |-> Speaker(((k - 1) % 2) + 1),
             text |-> trim(sentences[k]) \o <<".">>]]

\* The synthetic segments of groqService.ts: index idx of the code is k - 1.
syntheticSegments(text) ==
    LET sentences == SelectSeq(split(text, <<>>, FALSE), LAMBDA s : Len(trim(s)) > 0)
    IN  [k \in 1..Len(sentences) |->
            [start |-> (k - 1) * 5, end |-> k * 5,
             speaker |-> Speaker(((k - 1) % 2) + 1),
             text |-> trim(sentences[k]) \o <<".">>]]

\* The segments of the response labelled with a speaker that changes with
\* every segment.
speakerSegmentsEveryOne(segments) ==
    [k \in 1..Len(segments) |->
        [start |-> segments[k].start, end |-> segments[k].end,
         speaker |-> Speaker(((k - 1) % 2) + 1), text |-> segments[k].text]]

\* speakerSegments of groqService.ts: index of the code is k - 1.
speakerSegments(segments) ==
    [k \in 1..Len(segments) |->
        [start |-> segments[k].start, end |-> segments[k].end,
         speaker |-> Speaker((((k - 1) \div 3) % 2) + 1), text |-> segments[k].text]]

\* speakerSegments of part_004.
speakerSegments004(segments) ==
    [k \in 1..Len(segments) |->
        [start |-> segments[k].start, end |-> segments[k].end,
         speaker |-> Speaker(((k - 1) % 2) + 1), text |-> segments[k].text]]

\* The body of the transcription response: data.segments is an array
\* (segmentsGiven) or missing.
\* transcribeAudioWithGroq of groqService.ts from the response body on.  The
\* request it then sends to the gateway changes nothing of what it returns.
transcribeAudioWithGroqSegments(data) ==
    LET labelled == speakerSegments(data.segments)
    IN  [kind |-> "returned", text |-> data.text,
         speakerSegments |-> IF Len(labelled) = 0 THEN syntheticSegments(data.text)
                             ELSE labelled]

\* transcribeAudioWithGroq of part_004 from the response body on.  Without an
\* array of segments it asks the gateway for them: analysis is what came back
\* (form "array": JSON holding an array, "object": other JSON, "prose": no
\* JSON, "threw": the gateway rejected, which ends in the mock transcription).
transcribeAudioWithGroq004Segments(data, analysis) ==
    IF data.segmentsGiven
    THEN [kind |-> "returned", text |-> data.text,
          speakerSegments |-> speakerSegments004(data.segments)]
    ELSE IF analysis.form = "threw"
    THEN [kind |-> "mock", text |-> <<>>, speakerSegments |-> <<>>]
    ELSE [kind |-> "returned", text |-> data.text,
          speakerSegments |->
              CASE analysis.form = "array" -> analysis.segments
                [] analysis.form = "object" -> <<>>
                [] OTHER -> <<[start |-> 0, end |-> 60, speaker |-> Speaker(1),
                               text |-> data.text]>>]

ImportedSegments(s, data, analysis) ==
    IF s = "groqService.ts" THEN transcribeAudioWithGroqSegments(data)
    ELSE transcribeAudioWithGroq004Segments(data, analysis)

MaxTranscript == 5
MaxSegments == 7

TranscriptPieces == {<<"a">>, <<" ">>, <<".">>, <<"!">>, <<"?">>}
Transcripts == Concatenations(TranscriptPieces, MaxTranscript)

RemoteSegments ==
    {[start |-> 0, end |-> 4, text |-> <<"a">>],
     [start |-> 4, end |-> 9, text |-> <<" ", "a", ".">>]}

SegmentLists == Concatenations({<<s>> : s \in RemoteSegments}, MaxSegments) \ {<<>>}

NoAnalysis == [form |-> "none", segments |-> <<>>]

SpeakerAnalyses ==
    {[form |-> "array", segments |-> <<>>],
     [form |-> "array",
      segments |-> <<[start |-> 0, end |-> 2, speaker |-> "Agente", text |-> <<"a">>]>>],
     [form |-> "object", segments |-> <<>>],
     [form |-> "prose", segments |-> <<>>],
     [form |-> "threw", segments |-> <<>>]}

\* The response bodies, with the service that reads each and, where part_004
\* asks the gateway, what the gateway gives.
TranscriptionInputs ==
    {[service |-> s, analysis |-> NoAnalysis,
      data |-> [text |-> t, segments |-> <<>>, segmentsGiven |-> TRUE]] :
        s \in Services, t \in Transcripts}
    \cup {[service |-> "groqService.ts", analysis |-> NoAnalysis,
           data |-> [text |-> t, segments |-> <<>>, segmentsGiven |-> FALSE]] :
            t \in Transcripts}
    \cup {[service |-> "part_004", analysis |-> a,
           data |-> [text |-> t, segments |-> <<>>, segmentsGiven |-> FALSE]] :
            a \in SpeakerAnalyses, t \in Concatenations(TranscriptPieces, 2)}
    \cup {[service |-> s, analysis |-> NoAnalysis,
           data |-> [text |-> <<"a", " ", "a", ".">>, segments |-> segs,
                     segmentsGiven |-> TRUE]] :
            s \in Services, segs \in SegmentLists}

\* A pixel is <<r, g, b>>.  The code's brightness of a pixel is (r + g + b) / 3;
\* the sums below are kept three times as large, so that they stay integers,
\* and every threshold is scaled alike (the rounding of the floating-point sum
\* is left out).
Brightness3(pixel) == pixel[1] + pixel[2] + pixel[3]

\* The loop over the image data: total, minimum and maximum brightness.
RECURSIVE brightnessLoop(_, _, _, _, _)
brightnessLoop(pixels, i, totalBrightness, minBrightness, maxBrightness) ==
    IF i > Len(pixels)
    THEN [total |-> totalBrightness, min |-> minBrightness, max |-> maxBrightness]
    ELSE LET brightness == Brightness3(pixels[i])
         IN  brightnessLoop(pixels, i + 1, totalBrightness + brightness,
                            IF brightness < minBrightness THEN brightness ELSE minBrightness,
                            IF brightness > maxBrightness THEN brightness ELSE maxBrightness)

\* The filter chosen with the contrast of the image looked at first.
enhanceImageWithGroqFilterContrastFirst(pixels) ==
    LET m == brightnessLoop(pixels, 1, 0, 3 * 255, 0)
    IN  IF m.max - m.min < 3 * 80
        THEN "contrast(140%) brightness(105%) saturate(110%)"
        ELSE IF m.total < 3 * 100 * Len(pixels)
        THEN "brightness(135%) contrast(120%) saturate(105%)"
        ELSE IF m.total > 3 * 180 * Len(pixels)
        THEN "brightness(90%) contrast(125%) saturate(105%)"
        ELSE "contrast(115%) brightness(105%) saturate(105%)"

\* enhanceImageWithGroq, the ctx.filter its onload handler chooses:
\* avgBrightness = total / count, contrastLevel = max - min.
enhanceImageWithGroqFilter(pixels) ==
    LET m == brightnessLoop(pixels, 1, 0, 3 * 255, 0)
    IN  IF m.total < 3 * 100 * Len(pixels)
        THEN "brightness(135%) contrast(120%) saturate(105%)"
        ELSE IF m.total > 3 * 180 * Len(pixels)
        THEN "brightness(90%) contrast(125%) saturate(105%)"
        ELSE IF m.max - m.min < 3 * 80
        THEN "contrast(140%) brightness(105%) saturate(110%)"
        ELSE "contrast(115%) brightness(105%) saturate(105%)"

MaxPixels == 3

PixelValues ==
    {<<0, 0, 0>>, <<60, 70, 80>>, <<99, 100, 100>>, <<100, 100, 100>>,
     <<179, 180, 180>>, <<180, 180, 180>>, <<181, 180, 180>>, <<255, 255, 255>>}

ImagePixels == Concatenations({<<px>> : px \in PixelValues}, MaxPixels) \ {<<>>}

\* A function is applied once to an input; lastCall holds both.
\* The kernel of sharpenImage, its weights in tenths.
kernel10 == <<0, -10, 0, -10, 57, -10, 0, -10, 0>>

\* The kernel sum with a centre weight of 5.
kernelSum10Centre5(data, w, x, y, c) ==
    LET term(ky, kx) == data[((y + ky) * w + (x + kx)) * 4 + c + 1]
                            * (IF ky = 0 /\ kx = 0 THEN 50
                               ELSE kernel10[(ky + 1) * 3 + (kx + 1) + 1])
        row(ky) == term(ky, -1) + term(ky, 0) + term(ky, 1)
    IN  row(-1) + row(0) + row(1)

\* val of sharpenImage for channel c of the pixel at (x, y), in tenths:
\* data is indexed from 0 in the code, from 1 here.
kernelSum10(data, w, x, y, c) ==
    LET term(ky, kx) == data[((y + ky) * w + (x + kx)) * 4 + c + 1]
                            * kernel10[(ky + 1) * 3 + (kx + 1) + 1]
        row(ky) == term(ky, -1) + term(ky, 0) + term(ky, 1)
    IN  row(-1) + row(0) + row(1)

\* Math.min(255, Math.max(0, val)), in tenths.
clamp10(val10) == IF val10 < 0 THEN 0 ELSE IF val10 > 2550 THEN 2550 ELSE val10

\* The store into a Uint8ClampedArray of a number given in tenths: the nearest
\* integer, the even one of two equally near.
ToUint8Clamp10(val10) ==
    LET v == clamp10(val10)
        q == v \div 10
        r == v % 10
    IN  IF r < 5 THEN q
        ELSE IF r > 5 THEN q + 1
        ELSE IF q % 2 = 0 THEN q ELSE q + 1

\* sharpenImage: every colour channel of every pixel off the border is
\* computed from the data given; the buffer starts as a copy of the data.
sharpenImage(imageData) ==
    LET w == imageData.width
        h == imageData.height
        data == imageData.data
        buffer == [i \in 1..Len(data) |->
                      LET c == (i - 1) % 4
                          x == ((i - 1) \div 4) % w
                          y == ((i - 1) \div 4) \div w
                      IN  IF c < 3 /\ 1 <= y /\ y < h - 1 /\ 1 <= x /\ x < w - 1
                          THEN ToUint8Clamp10(clamp10(kernelSum10(data, w, x, y, c)))
                          ELSE data[i]]
    IN  [width |-> w, height |-> h, data |-> buffer]

\* The images sharpenImage is applied to: up to MaxSide wide and high, their
\* pixels taken from a palette along a pattern.
MaxSide == 4

Palette ==
    <<<<0, 0, 0, 255>>, <<255, 255, 255, 255>>, <<5, 100, 1, 0>>,
      <<200, 5, 45, 128>>, <<30, 31, 32, 7>>>>

PatternImage(w, h, a, b, k) ==
    [width |-> w, height |-> h,
     data |-> [i \in 1..(w * h * 4) |->
                  Palette[((a * (((i - 1) \div 4) % w) + b * (((i - 1) \div 4) \div w) + k)
                               % Len(Palette)) + 1][((i - 1) % 4) + 1]]]

SharpenInputs ==
    {PatternImage(w, h, a, b, k) :
        w \in 1..MaxSide, h \in {1, 3, MaxSide}, a \in {1, 2}, b \in {0, 3}, k \in 0..4}

\* fileContent.split(/\s+/): the pieces between the runs of white space, the
\* empty ones at the ends included.
RECURSIVE splitWhiteSpace(_, _, _)
splitWhiteSpace(text, piece, inRun) ==
    IF text = <<>> THEN <<piece>>
    ELSE IF Head(text) \in WhiteSpace
    THEN IF inRun THEN splitWhiteSpace(Tail(text), <<>>, TRUE)
         ELSE <<piece>> \o splitWhiteSpace(Tail(text), <<>>, TRUE)
    ELSE splitWhiteSpace(Tail(text), Append(piece, Head(text)), FALSE)

\* The default graph of processLinkAnalysisDataWithGroq: one node for each of
\* the first ten words longer than four characters, one link from each node to
\* the next; the fixed nodes when there is no node, the fixed links when there
\* is no link.
processLinkAnalysisDataWithGroqDefault(fileContent) ==
    LET long == SelectSeq(splitWhiteSpace(fileContent, <<>>, FALSE), LAMBDA w : Len(w) > 4)
        words == SubSeq(long, 1, IF Len(long) < 10 THEN Len(long) ELSE 10)
        group(i) == CASE i % 5 = 0 -> "suspect" [] i % 5 = 1 -> "victim"
                      [] i % 5 = 2 -> "witness" [] i % 5 = 3 -> "location"
                      [] OTHER -> "evidence"
        type(i) == CASE i % 4 = 0 -> "knows" [] i % 4 = 1 -> "owns"
                     [] i % 4 = 2 -> "visits" [] OTHER -> "related_to"
        defaultNodes == [k \in 1..Len(words) |->
                            [id |-> ToString(k), label |-> words[k],
                             group |-> group(k - 1), size |-> 5 + ((k - 1) % 10)]]
        defaultLinks == [k \in 1..(Len(defaultNodes) - 1) |->
                            [source |-> defaultNodes[k].id, target |-> defaultNodes[k + 1].id,
                             value |-> 5, type |-> type(k - 1)]]
    IN  [nodes |-> IF Len(defaultNodes) > 0 THEN defaultNodes
                   ELSE <<[id |-> "1", label |-> <<"João Silva">>, group |-> "suspect", size |-> 10],
                          [id |-> "2", label |-> <<"Ana Souza">>, group |-> "victim", size |-> 8],
                          [id |-> "3", label |-> <<"Empresa ABC">>, group |-> "location", size |-> 12]>>,
         links |-> IF Len(defaultLinks) > 0 THEN defaultLinks
                   ELSE <<[source |-> "1", target |-> "2", value |-> 5, type |-> "knows"],
                          [source |-> "1", target |-> "3", value |-> 7, type |-> "works_at"]>>]

\* The file contents: up to MaxPieces pieces, each a word of five letters, a
\* word of two or white space; and one content of eleven long words.
MaxPieces == 4

ContentPieces == {<<"a", "b", "c", "d", "e">>, <<"x", "y">>, <<" ">>, <<"\n">>}

RECURSIVE Repeated(_, _)
Repeated(piece, n) == IF n = 0 THEN <<>> ELSE piece \o Repeated(piece, n - 1)

FileContents ==
    Concatenations(ContentPieces, MaxPieces)
        \cup {Repeated(<<"a", "b", "c", "d", "e", " ">>, 11)}

NothingApplied == lastCall.op = "none"

ParseImageReply ==
    /\ NothingApplied
    /\ \E reply \in ImageReplies :
         lastCall' = [op |-> "analyzeImageWithGroqParse", reply |-> reply,
                      result |-> analyzeImageWithGroqParse(reply)]
    /\ UNCHANGED <<storage, svc, settings, pendingSave, call, procs>>

TranscriptionResponseBody ==
    /\ NothingApplied
    /\ \E in \in TranscriptionInputs :
         lastCall' = [op |-> "transcribeAudioWithGroq", service |-> in.service,
                      data |-> in.data, analysis |-> in.analysis,
                      result |-> ImportedSegments(in.service, in.data, in.analysis)]
    /\ UNCHANGED <<storage, svc, settings, pendingSave, call, procs>>

EnhanceImageOnload ==
    /\ NothingApplied
    /\ \E pixels \in ImagePixels :
         lastCall' = [op |-> "enhanceImageWithGroqFilter", pixels |-> pixels,
                      filter |-> enhanceImageWithGroqFilter(pixels)]
    /\ UNCHANGED <<storage, svc, settings, pendingSave, call, procs>>

SharpenImageData ==
    /\ NothingApplied
    /\ \E imageData \in SharpenInputs :
         lastCall' = [op |-> "sharpenImage", imageData |-> imageData,
                      result |-> sharpenImage(imageData)]
    /\ UNCHANGED <<storage, svc, settings, pendingSave, call, procs>>

\* The catch of processLinkAnalysisDataWithGroq after a reply that is no graph.
LinkAnalysisParseError ==
    /\ NothingApplied
    /\ \E fileContent \in FileContents :
         lastCall' = [op |-> "processLinkAnalysisDataWithGroqDefault",
                      fileContent |-> fileContent,
                      result |-> processLinkAnalysisDataWithGroqDefault(fileContent)]
    /\ UNCHANGED <<storage, svc, settings, pendingSave, call, procs>>

InitFunctions ==
    /\ storage = [k \in StorageKeys |-> NullText]
    /\ svc = "groqService.ts"
    /\ settings = DEFAULT_GROQ_SETTINGS
    /\ pendingSave = NoPendingSave
    /\ lastCall = [op |-> "none"]
    /\ call = IdleCall
    /\ procs = [t \in Tabs |-> IdleProc]

NextFunctions ==
    \/ ParseImageReply
    \/ TranscriptionResponseBody
    \/ EnhanceImageOnload
    \/ SharpenImageData
    \/ LinkAnalysisParseError

SpecFunctions == InitFunctions /\ [][NextFunctions]_vars

-----------------------------------------------------------------------------
(* Claims about what is computed from a response *)

\* The substring of text that begins at i and is n long matches plateRegex.
MatchesPlateRegex(text, i, n) ==
    \E sep \in {0, 1} : \E mid \in {0, 1} :
        /\ n = 6 + sep + mid
        /\ i + n - 1 <= Len(text)
        /\ \A k \in i..(i + 2) : text[k] \in UpperCase
        /\ sep = 1 => (text[i + 3] = "-" \/ text[i + 3] \in WhiteSpace)
        /\ text[i + 3 + sep] \in Digits
        /\ mid = 1 => text[i + 4 + sep] \in Digits \cup UpperCase
        /\ \A k \in (i + n - 2)..(i + n - 1) : text[k] \in Digits

\* The text the salvage pass searches.
SearchedText(reply) == IF reply.form = "json" THEN reply.ocr_text ELSE reply.raw

SeqRange(s) == {s[k] : k \in 1..Len(s)}

\* C11: wherever the text searched by the salvage pass of analyzeImageWithGroq
\* (the raw reply after a parse failure, the OCR text when the parsed reply
\* lists no plates) holds a match of the plate pattern, the returned
\* licensePlates holds that match (the longest one that begins there) with '-'
\* and white space removed, and no salvaged plate holds a separator.
C11_SalvagedPlates ==
    (lastCall.op = "analyzeImageWithGroqParse" /\ lastCall.result.salvaged) =>
        LET text == SearchedText(lastCall.reply)
            plates == SeqRange(lastCall.result.licensePlates)
        IN  /\ \A i \in 1..Len(text) :
                 LET lengths == {n \in 6..8 : MatchesPlateRegex(text, i, n)}
                 IN  lengths # {} =>
                       LET n == CHOOSE x \in lengths : \A y \in lengths : y <= x
                       IN  cleanedPlate(SubSeq(text, i, i + n - 1)) \in plates
            /\ \A p \in plates : \A k \in 1..Len(p) : p[k] # "-" /\ p[k] \notin WhiteSpace

\* Reached: "ABC-1234" in a reply that is no JSON gave the plate "ABC1234",
\* and an OCR text with two plates gave both.
C11_Witness ==
    /\ lastCall.op = "analyzeImageWithGroqParse"
    /\ lastCall.result.salvaged
    /\ \/ /\ lastCall.reply.form = "prose"
          /\ lastCall.reply.raw = <<"A", "B", "C", "-", "1", "2", "3", "4">>
          /\ lastCall.result.licensePlates = <<<<"A", "B", "C", "1", "2", "3", "4">>>>
       \/ /\ lastCall.reply.form = "json"
          /\ Len(lastCall.result.licensePlates) = 2

\* The indexes at which a non-blank sentence of the text begins: the character
\* is neither terminal nor white space, and only white space lies between it
\* and the terminal character before it (or the beginning of the text).
SentenceStarts(text) ==
    {i \in 1..Len(text) :
        /\ text[i] \notin Terminal \cup WhiteSpace
        /\ \A j \in 1..(i - 1) :
             (\A k \in j..(i - 1) : text[k] \notin Terminal) => text[j] \in WhiteSpace}

\* What C12 states of the result for a response body without segments.
OneSegmentPerSentence(data, result) ==
    LET starts == SentenceStarts(data.text)
        segs == result.speakerSegments
    IN  /\ result.kind = "returned"
        /\ Len(segs) = Cardinality(starts)
        /\ \A k \in 1..Len(segs) :
             /\ segs[k].start = 5 * (k - 1)
             /\ segs[k].end = 5 * k
             /\ segs[k].speaker = (IF (k - 1) % 2 = 0 THEN "Speaker 1" ELSE "Speaker 2")
             /\ \E i \in starts :
                  /\ Cardinality({j \in starts : j < i}) = k - 1
                  /\ segs[k].text[1] = data.text[i]
        /\ \A k \in 1..(Len(segs) - 1) :
             segs[k].start < segs[k + 1].start /\ segs[k].end = segs[k + 1].start

\* C12 as stated: when the transcription response carries no segments,
\* transcribeAudioWithGroq returns one segment per non-blank sentence of the
\* text split on '.', '!', '?', in order, segment i from 5*i to 5*(i+1), with
\* 'Speaker 1' for even i and 'Speaker 2' for odd i.
C12_SyntheticSegmentsAsStated ==
    (lastCall.op = "transcribeAudioWithGroq" /\ Len(lastCall.data.segments) = 0) =>
        OneSegmentPerSentence(lastCall.data, lastCall.result)

\* C12: with groqService.ts, a response without segments gives one segment per
\* non-blank sentence, in order, segment i from 5*i to 5*(i+1), the speakers
\* alternating from 'Speaker 1'.  With part_004 the text is never split: an
\* empty array of segments gives no segment, and a missing one gives what the
\* gateway's reply holds (its array, nothing for other JSON, one segment
\* 'Speaker 1' from 0 to 60 with the whole text for a reply that is no JSON) or
\* the mock transcription when the gateway rejects.
C12_SyntheticSegments ==
    (lastCall.op = "transcribeAudioWithGroq" /\ Len(lastCall.data.segments) = 0) =>
        LET data == lastCall.data
            result == lastCall.result
            analysis == lastCall.analysis
        IN  IF lastCall.service = "groqService.ts"
            THEN OneSegmentPerSentence(data, result)
            ELSE IF data.segmentsGiven
            THEN result.kind = "returned" /\ result.speakerSegments = <<>>
            ELSE CASE analysis.form = "threw" -> result.kind = "mock"
                   [] analysis.form = "array" ->
                          result.kind = "returned"
                          /\ result.speakerSegments = analysis.segments
                   [] analysis.form = "object" ->
                          result.kind = "returned" /\ result.speakerSegments = <<>>
                   [] OTHER ->
                          /\ result.kind = "returned"
                          /\ Len(result.speakerSegments) = 1
                          /\ result.speakerSegments[1].start = 0
                          /\ result.speakerSegments[1].end = 60
                          /\ result.speakerSegments[1].speaker = "Speaker 1"
                          /\ result.speakerSegments[1].text = data.text

\* Reached: groqService.ts made three segments of "a.a?a", and part_004 gave
\* no segment for a text of two sentences.
C12_Witness ==
    /\ lastCall.op = "transcribeAudioWithGroq"
    /\ Len(lastCall.data.segments) = 0
    /\ lastCall.data.text = <<"a", ".", "a", "?", "a">>
    /\ \/ /\ lastCall.service = "groqService.ts"
          /\ Len(lastCall.result.speakerSegments) = 3
          /\ lastCall.result.speakerSegments[3].speaker = "Speaker 1"
       \/ /\ lastCall.service = "part_004"
          /\ lastCall.result.speakerSegments = <<>>

\* What C13 and its amendment share: as many segments as received, each with
\* the remote start, end and text.
KeepsRemoteSegments(data, result) ==
    /\ result.kind = "returned"
    /\ Len(result.speakerSegments) = Len(data.segments)
    /\ \A k \in 1..Len(data.segments) :
         /\ result.speakerSegments[k].start = data.segments[k].start
         /\ result.speakerSegments[k].end = data.segments[k].end
         /\ result.speakerSegments[k].text = data.segments[k].text

\* C13 as stated: with per-segment timing in the response, transcribeAudioWithGroq
\* returns as many segments as it received, each with the remote start, end and
\* text, segment i labelled 'Speaker ' + (floor(i/3) mod 2 + 1).
C13_SpeakerEveryThreeAsStated ==
    (lastCall.op = "transcribeAudioWithGroq" /\ Len(lastCall.data.segments) > 0) =>
        /\ KeepsRemoteSegments(lastCall.data, lastCall.result)
        /\ \A k \in 1..Len(lastCall.data.segments) :
             lastCall.result.speakerSegments[k].speaker =
                 (IF ((k - 1) \div 3) % 2 = 0 THEN "Speaker 1" ELSE "Speaker 2")

\* C13: with per-segment timing in the response, transcribeAudioWithGroq returns
\* as many segments as it received, each with the remote start, end and text;
\* groqService.ts labels segment i 'Speaker ' + (floor(i/3) mod 2 + 1), so the
\* label changes every three segments, and part_004 labels it
\* 'Speaker ' + (i mod 2 + 1), so the label changes with every segment.
C13_SpeakerEveryThree ==
    (lastCall.op = "transcribeAudioWithGroq" /\ Len(lastCall.data.segments) > 0) =>
        /\ KeepsRemoteSegments(lastCall.data, lastCall.result)
        /\ \A k \in 1..Len(lastCall.data.segments) :
             lastCall.result.speakerSegments[k].speaker =
                 (IF lastCall.service = "groqService.ts"
                  THEN (IF ((k - 1) \div 3) % 2 = 0 THEN "Speaker 1" ELSE "Speaker 2")
                  ELSE (IF (k - 1) % 2 = 0 THEN "Speaker 1" ELSE "Speaker 2"))

\* Reached: seven segments came back, labelled 1 1 1 2 2 2 1 by groqService.ts
\* or 1 2 1 2 1 2 1 by part_004.
C13_Witness ==
    /\ lastCall.op = "transcribeAudioWithGroq"
    /\ Len(lastCall.data.segments) = 7
    /\ lastCall.result.speakerSegments[7].speaker = "Speaker 1"
    /\ \/ /\ lastCall.service = "groqService.ts"
          /\ lastCall.result.speakerSegments[3].speaker = "Speaker 1"
          /\ lastCall.result.speakerSegments[4].speaker = "Speaker 2"
       \/ /\ lastCall.service = "part_004"
          /\ lastCall.result.speakerSegments[2].speaker = "Speaker 2"

RECURSIVE SumSeq(_)
SumSeq(s) == IF s = <<>> THEN 0 ELSE Head(s) + SumSeq(Tail(s))

\* The filter of each of the four profiles.
ProfileFilter ==
    [dark |-> "brightness(135%) contrast(120%) saturate(105%)",
     bright |-> "brightness(90%) contrast(125%) saturate(105%)",
     lowContrast |-> "contrast(140%) brightness(105%) saturate(110%)",
     normal |-> "contrast(115%) brightness(105%) saturate(105%)"]

\* The profile C14 gives to an image: average and range are those of the
\* brightness (r + g + b) / 3, written here without the division.
ProfileOf(pixels) ==
    LET lumas == [k \in 1..Len(pixels) |-> pixels[k][1] + pixels[k][2] + pixels[k][3]]
        highest == CHOOSE x \in SeqRange(lumas) : \A y \in SeqRange(lumas) : y <= x
        lowest == CHOOSE x \in SeqRange(lumas) : \A y \in SeqRange(lumas) : x <= y
    IN  IF SumSeq(lumas) < 300 * Len(pixels) THEN "dark"
        ELSE IF SumSeq(lumas) > 540 * Len(pixels) THEN "bright"
        ELSE IF highest - lowest < 240 THEN "lowContrast"
        ELSE "normal"

\* C14: enhanceImageWithGroq selects exactly one filter profile per image, as a
\* function of the average luma and the luma range: dark when the average is
\* below 100, otherwise bright when it is above 180, otherwise low-contrast when
\* the range is below 80, otherwise normal.
C14_FilterProfile ==
    lastCall.op = "enhanceImageWithGroqFilter" =>
        lastCall.filter = ProfileFilter[ProfileOf(lastCall.pixels)]

\* Reached: an image of average 180 and range 80 got the normal profile (it is
\* neither bright nor flat), and one of average 255 and range 0 the bright one.
C14_Witness ==
    /\ lastCall.op = "enhanceImageWithGroqFilter"
    /\ \/ /\ lastCall.pixels = <<<<100, 100, 100>>, <<180, 180, 180>>>>
          /\ lastCall.filter = ProfileFilter.normal
       \/ /\ lastCall.pixels = <<<<255, 255, 255>>>>
          /\ lastCall.filter = ProfileFilter.bright

\* The callers that parse the reply of the gateway.
ParsingCallers ==
    {"analyzeImageWithGroq", "analyzePdfDocumentWithGroq", "processLinkAnalysisDataWithGroq"}

\* The state a call ended in: which return statement gave its result.
OutcomeState(c) ==
    IF c.outcome.kind = "threw" THEN "Rejected"
    ELSE IF c.outcome.kind # "returned" THEN "None"
    ELSE IF c.outcome.value.detail = <<"regex">> THEN "RegexSalvaged"
    ELSE IF c.outcome.value.detail \in {<<"Erro de processamento">>, <<"words of the file">>}
    THEN "Defaulted"
    ELSE "ParsedStructured"

DoneInOnePass(c) ==
    (c.pc = "done" /\ c.caller \in DomainCallers /\ c.key # "") =>
        CASE c.caller \in ParsingCallers ->
                 /\ c.gkey # "unread"
                 /\ c.whisperPosts = 0
                 /\ c.posts = (IF c.gkey = "" THEN 0 ELSE 1)
                 /\ OutcomeState(c) \in
                        (IF c.caller = "analyzeImageWithGroq"
                         THEN {"ParsedStructured", "RegexSalvaged"}
                         ELSE {"ParsedStructured", "Defaulted"})
          [] c.caller = "generateInvestigationReportWithGroq" ->
                 /\ c.gkey # "unread"
                 /\ c.whisperPosts = 0
                 /\ c.posts = (IF c.gkey = "" THEN 0 ELSE 1)
                 /\ c.outcome = Returned(Value("text", c.gateway.text, <<>>))
          [] c.caller = "transcribeAudioWithGroq" ->
                 /\ c.whisperPosts = 1
                 /\ c.posts <= 1
                 /\ OutcomeState(c) = "Rejected" => c.posts = 0
          [] OTHER -> c.posts = 0 /\ c.whisperPosts = 0

LacksExpectedFields(c) ==
    \/ ~ParsesAsJson(c.gateway.text)
    \/ c.gateway.text.kind = "reply" /\ c.gateway.text.tag \in {"jsonEmpty", "jsonNull"}
    \/ c.caller = "analyzeImageWithGroq" /\ ~HasImageShape(c.gateway.text)
    \/ c.caller = "processLinkAnalysisDataWithGroq" /\ ~HasGraphShape(c.gateway.text)

\* C16: a reply that is no valid JSON or that lacks the expected fields never
\* makes analyzeImageWithGroq, analyzePdfDocumentWithGroq or
\* processLinkAnalysisDataWithGroq reject: the image analysis returns what the
\* regular expressions find or empty fields, the document analysis its fixed
\* 'Erro de processamento' structure or the fixed value of each missing field,
\* the link analysis the graph made without the reply.
C16_NoRejectOnBadReply ==
    (/\ call.pc = "done"
     /\ call.caller \in ParsingCallers
     /\ call.gateway.state = "settled"
     /\ ~call.gateway.threw) =>
        /\ call.outcome.kind = "returned"
        /\ LacksExpectedFields(call) =>
             call.outcome.value.detail \in
                 CASE call.caller = "analyzeImageWithGroq" -> {<<"regex">>, <<"empty fields">>}
                   [] call.caller = "analyzePdfDocumentWithGroq" ->
                          {<<"Erro de processamento">>, <<"Não classificado">>}
                   [] OTHER -> {<<"words of the file">>}

\* Reached: the link analysis got the object {} and returned the graph made of
\* the words of the file; the document analysis got prose and returned its
\* fixed structure.
C16_Witness ==
    /\ call.pc = "done"
    /\ call.posts = 1
    /\ call.outcome.kind = "returned"
    /\ \/ /\ call.caller = "processLinkAnalysisDataWithGroq"
          /\ call.gateway = Settled(Text("reply", "jsonEmpty", <<>>))
          /\ call.outcome.value.detail = <<"words of the file">>
       \/ /\ call.caller = "analyzePdfDocumentWithGroq"
          /\ call.gateway = Settled(Text("reply", "prose", <<>>))
          /\ call.outcome.value.detail = <<"Erro de processamento">>

-----------------------------------------------------------------------------
(* The busy flags of the pages' handlers *)

\* A page's handler: handler names it, busy is its flag (isProcessing,
\* isTranscribing, isGenerating), pc the await it is suspended at.
IdlePage == [pc |-> "idle", handler |-> "none", busy |-> FALSE, caseId |-> NoCase, arg |-> NoArg]

BusyPage(handler, pc, caseId, arg) ==
    [pc |-> pc, handler |-> handler, busy |-> TRUE, caseId |-> caseId, arg |-> arg]

\* The way a handler went that has ended.
PathOf(outcome) ==
    IF outcome.kind # "threw" THEN "success"
    ELSE IF outcome.value.detail = <<"API key not configured">> THEN "missing configuration"
    ELSE "rejected request"

Ended(handler, path) == [op |-> "page", result |-> path, handler |-> handler]

\* The lookup of a handler gave no record of the file (its read of the key
\* having raised or not).
NotFound(handler, raised) ==
    [op |-> "page", result |-> "not found", handler |-> handler, lookupRaised |-> raised]

\* How processImage ended at the await it was suspended at: after a returned
\* analysis saveToCurrentCase is called and the success toast shown, after a
\* rejection the catch shows the error toast.
EndedImage(stage, outcome) ==
    [op |-> "page", result |-> PathOf(outcome), handler |-> "processImage", stage |-> stage,
     savedToCase |-> outcome.kind = "returned" /\ stage = "analyse",
     toast |-> IF outcome.kind = "returned" /\ stage = "analyse" THEN "success" ELSE "error"]

\* A handler whose finally runs only when its try block has not thrown.
AfterTryNoFinallyOnThrow(p, outcome) ==
    IF outcome.kind = "threw" THEN [IdlePage EXCEPT !.busy = TRUE] ELSE IdlePage

\* The handler's catch and finally, after its try block has ended with the
\* outcome: the flag is cleared whether the block threw or not.
AfterTry(p, outcome) == [p EXCEPT !.pc = "idle", !.handler = "none", !.busy = FALSE,
                                  !.caseId = NoCase, !.arg = NoArg]

\* A button starts a handler when its page's flag is down; the model runs one
\* handler at a time.
CanClick(t) == ~procs[t].busy /\ \A u \in Tabs : procs[u].pc = "idle"

StoredAnalyses == Len(StoredArray(storage, AudioKey)) + Len(StoredArray(storage, ImageKey))

PageRecord(p) == [caseId |-> p.caseId, filename |-> p.arg.name]

\* processImage of ImageAnalysis.tsx up to its await of the lookup; without an
\* image or a case it returns before it sets isProcessing.
processImageClicked(t) ==
    /\ CanClick(t)
    /\ svc = "groqService.ts"
    /\ \E image \in Images \cup {NoArg} : \E c \in {"c1", NoCase} :
         IF image = NoArg \/ c = NoCase
         THEN /\ procs' = procs
              /\ lastCall' = Ended("processImage", "not started")
         ELSE /\ StoredAnalyses < MaxRecords
              /\ procs' = [procs EXCEPT ![t] = BusyPage("processImage", "lookup", c, image)]
              /\ lastCall' = [op |-> "page", result |-> "started"]
    /\ call' = IdleCall
    /\ UNCHANGED <<storage, svc, settings, pendingSave>>

\* processImage going on to the enhancement whatever is stored.
processImageLookedUpAnalysesAgain(t) ==
    /\ procs[t].pc = "lookup"
    /\ procs[t].handler = "processImage"
    /\ \E rf, rf2 \in BOOLEAN : \E canvas \in CanvasOutcomes :
         /\ procs' = [procs EXCEPT ![t].pc = "enhance"]
         /\ call' = enhanceImageWithGroq(getGroqSettings(storage, rf2).value,
                                         procs[t].arg, canvas)
         /\ lastCall' = NotFound("processImage", FALSE)
    /\ UNCHANGED <<storage, svc, settings, pendingSave>>

\* processImage from the lookup's end: an analysis found is shown, isProcessing
\* cleared and the handler left; otherwise enhanceImageWithGroq is awaited.
processImageLookedUp(t) ==
    /\ procs[t].pc = "lookup"
    /\ procs[t].handler = "processImage"
    /\ \E rf, rf2 \in BOOLEAN : \E canvas \in CanvasOutcomes :
         LET analyses == getImageAnalysesByCaseId(storage, procs[t].caseId, rf).value
         IN  IF FindsFilename(analyses, procs[t].arg.name)
             THEN /\ procs' = [procs EXCEPT ![t] = AfterTry(@, Returned(Value("cached", NoText, <<>>)))]
                  /\ lastCall' = Ended("processImage", "cached result")
                  /\ call' = call
             ELSE /\ procs' = [procs EXCEPT ![t].pc = "enhance"]
                  /\ call' = enhanceImageWithGroq(getGroqSettings(storage, rf2).value,
                                                  procs[t].arg, canvas)
                  /\ lastCall' = NotFound("processImage", rf)
    /\ UNCHANGED <<storage, svc, settings, pendingSave>>

\* processImage from the end of enhanceImageWithGroq: a rejection goes to the
\* catch and the finally; otherwise analyzeImageWithGroq is awaited.
processImageEnhanced(t) ==
    /\ procs[t].pc = "enhance"
    /\ call.pc = "done"
    /\ IF call.outcome.kind = "threw"
       THEN /\ procs' = [procs EXCEPT ![t] = AfterTry(@, call.outcome)]
            /\ lastCall' = EndedImage("enhance", call.outcome)
            /\ call' = IdleCall
       ELSE /\ \E rf1, rf2 \in BOOLEAN : \E env \in Envs :
                 call' = Ask(svc, analyzeImageWithGroq(getGroqSettings(storage, rf1).value,
                                                       procs[t].arg),
                             getGroqSettings(storage, rf2).value, env)
            /\ procs' = [procs EXCEPT ![t].pc = "analyse"]
            /\ lastCall' = lastCall
    /\ UNCHANGED <<storage, svc, settings, pendingSave>>

\* processImage saving whatever analyzeImageWithGroq ended with.
processImageSettledSavesAnyway(t) ==
    /\ procs[t].pc = "analyse"
    /\ call.pc = "done"
    /\ \E rf, wf \in BOOLEAN :
         storage' = saveImageAnalysis(storage, PageRecord(procs[t]), rf, wf).store
    /\ procs' = [procs EXCEPT ![t] = AfterTry(@, call.outcome)]
    /\ lastCall' = EndedImage("analyse", call.outcome)
    /\ call' = IdleCall
    /\ UNCHANGED <<svc, settings, pendingSave>>

\* processImage from the end of analyzeImageWithGroq: the analysis is saved (a
\* save that fails reports false and throws nothing), saveToCurrentCase is
\* called and the success toast shown; a rejection goes to the catch; the
\* finally clears isProcessing.
processImageSettled(t) ==
    /\ procs[t].pc = "analyse"
    /\ call.pc = "done"
    /\ IF call.outcome.kind = "threw"
       THEN storage' = storage
       ELSE \E rf, wf \in BOOLEAN :
                storage' = saveImageAnalysis(storage, PageRecord(procs[t]), rf, wf).store
    /\ procs' = [procs EXCEPT ![t] = AfterTry(@, call.outcome)]
    /\ lastCall' = EndedImage("analyse", call.outcome)
    /\ call' = IdleCall
    /\ UNCHANGED <<svc, settings, pendingSave>>

\* handleTranscribe of the audio page up to its first await: isTranscribing is
\* set; with a case the lookup is awaited, without one transcribeAudioWithGroq.
handleTranscribeClicked(t) ==
    /\ CanClick(t)
    /\ svc = "groqService.ts"
    /\ \E audio \in AudioFiles : \E c \in {"c1", NoCase} : \E rf \in BOOLEAN :
         IF c = NoCase
         THEN /\ procs' = [procs EXCEPT ![t] = BusyPage("handleTranscribe", "transcribe", c, audio)]
              /\ call' = transcribeAudioWithGroq(getGroqSettings(storage, rf).value, audio)
         ELSE /\ StoredAnalyses < MaxRecords
              /\ procs' = [procs EXCEPT ![t] = BusyPage("handleTranscribe", "lookup", c, audio)]
              /\ call' = IdleCall
    /\ lastCall' = [op |-> "page", result |-> "started"]
    /\ UNCHANGED <<storage, svc, settings, pendingSave>>

\* handleTranscribe from the lookup's end: a transcription found is shown,
\* isTranscribing cleared and the handler left; otherwise
\* transcribeAudioWithGroq is awaited.
handleTranscribeLookedUp(t) ==
    /\ procs[t].pc = "lookup"
    /\ procs[t].handler = "handleTranscribe"
    /\ \E rf, rf2 \in BOOLEAN :
         LET transcriptions == getAudioTranscriptionsByCaseId(storage, procs[t].caseId, rf).value
         IN  IF FindsFilename(transcriptions, procs[t].arg.name)
             THEN /\ procs' = [procs EXCEPT ![t] = AfterTry(@, Returned(Value("cached", NoText, <<>>)))]
                  /\ lastCall' = Ended("handleTranscribe", "cached result")
                  /\ call' = call
             ELSE /\ procs' = [procs EXCEPT ![t].pc = "transcribe"]
                  /\ call' = transcribeAudioWithGroq(getGroqSettings(storage, rf2).value,
                                                     procs[t].arg)
                  /\ lastCall' = NotFound("handleTranscribe", rf)
    /\ UNCHANGED <<storage, svc, settings, pendingSave>>

\* handleTranscribe from the end of transcribeAudioWithGroq: with a case the
\* transcription is saved; the finally clears isTranscribing.
handleTranscribeSettled(t) ==
    /\ procs[t].pc = "transcribe"
    /\ call.pc = "done"
    /\ IF call.outcome.kind = "threw" \/ procs[t].caseId = NoCase
       THEN storage' = storage
       ELSE \E rf, wf \in BOOLEAN :
                storage' = saveAudioTranscription(storage, PageRecord(procs[t]), rf, wf).store
    /\ procs' = [procs EXCEPT ![t] = AfterTry(@, call.outcome)]
    /\ lastCall' = Ended("handleTranscribe", PathOf(call.outcome))
    /\ call' = IdleCall
    /\ UNCHANGED <<svc, settings, pendingSave>>

\* What generateReport and handleAnalyzeManualText send.
ReportMessages(t) == <<SystemMessage({"áudio"}), UserMessage(StringContent(t))>>
ManualMessages(t) ==
    <<SystemMessage({"boletim de ocorrência"}),
      UserMessage(StringContent({"boletim de ocorrência"} \cup t))>>

\* generateReport of the audio page up to its await of makeGroqAIRequest;
\* without a transcription or a case it returns before it sets isGenerating.
generateReport(t) ==
    /\ CanClick(t)
    /\ \E transcribed \in BOOLEAN : \E c \in {"c1", NoCase} : \E rf \in BOOLEAN :
       \E env \in Envs : \E said \in {{}, {"imagem"}} :
         LET cfg == ImportedGet(svc, storage, rf).value
             c0 == [NewCall("makeGroqAIRequest", NoArg, cfg["groqApiKey"])
                       EXCEPT !.pc = "ask", !.messages = ReportMessages(said)]
         IN  IF ~transcribed \/ c = NoCase
             THEN /\ procs' = procs
                  /\ call' = IdleCall
                  /\ lastCall' = Ended("generateReport", "not started")
             ELSE /\ procs' = [procs EXCEPT ![t] = BusyPage("generateReport", "report", c, NoArg)]
                  /\ call' = Ask(svc, c0, cfg, env)
                  /\ lastCall' = [op |-> "page", result |-> "started"]
    /\ UNCHANGED <<storage, svc, settings, pendingSave>>

\* generateReport from the end of makeGroqAIRequest to its finally.
generateReportSettled(t) ==
    /\ procs[t].pc = "report"
    /\ call.pc = "done"
    /\ procs' = [procs EXCEPT ![t] = AfterTry(@, call.outcome)]
    /\ lastCall' = Ended("generateReport", PathOf(call.outcome))
    /\ call' = IdleCall
    /\ UNCHANGED <<storage, svc, settings, pendingSave>>

\* handleAnalyzeManualText of ManualOccurrenceInput.tsx up to its await of
\* makeGroqAIRequest: a blank text returns before isProcessing is set; with no
\* API key stored the try block throws, and the catch and the finally run
\* before the handler yields.
handleAnalyzeManualText(t) ==
    /\ CanClick(t)
    /\ \E blank, rf, rf2 \in BOOLEAN : \E env \in Envs : \E text \in {{}, {"imagem"}} :
         LET settings0 == getGroqSettings(storage, rf).value
             cfg == ImportedGet(svc, storage, rf2).value
             c0 == [NewCall("makeGroqAIRequest", NoArg, cfg["groqApiKey"])
                       EXCEPT !.pc = "ask", !.messages = ManualMessages(text)]
             busy == BusyPage("handleAnalyzeManualText", "manual", NoCase, NoArg)
         IN  IF blank
             THEN /\ procs' = procs
                  /\ call' = IdleCall
                  /\ lastCall' = Ended("handleAnalyzeManualText", "not started")
             ELSE IF settings0["groqApiKey"] = ""
             THEN /\ procs' = [procs EXCEPT ![t] = AfterTry(busy, Threw("API key not configured"))]
                  /\ call' = IdleCall
                  /\ lastCall' = Ended("handleAnalyzeManualText", "missing configuration")
             ELSE /\ procs' = [procs EXCEPT ![t] = busy]
                  /\ call' = Ask(svc, c0, cfg, env)
                  /\ lastCall' = [op |-> "page", result |-> "started"]
    /\ UNCHANGED <<storage, svc, settings, pendingSave>>

\* handleAnalyzeManualText from the end of makeGroqAIRequest to its finally.
handleAnalyzeManualTextSettled(t) ==
    /\ procs[t].pc = "manual"
    /\ call.pc = "done"
    /\ procs' = [procs EXCEPT ![t] = AfterTry(@, call.outcome)]
    /\ lastCall' = Ended("handleAnalyzeManualText", PathOf(call.outcome))
    /\ call' = IdleCall
    /\ UNCHANGED <<storage, svc, settings, pendingSave>>

InitPages ==
    /\ storage \in GatewayStorage
    /\ svc \in Services
    /\ settings = DEFAULT_GROQ_SETTINGS
    /\ pendingSave = NoPendingSave
    /\ lastCall = [op |-> "none"]
    /\ call = IdleCall
    /\ procs = [t \in Tabs |-> IdlePage]

\* What a handler suspended at an await goes on with.
Continues(t) ==
    \/ processImageLookedUp(t)
    \/ processImageEnhanced(t)
    \/ processImageSettled(t)
    \/ handleTranscribeLookedUp(t)
    \/ handleTranscribeSettled(t)
    \/ generateReportSettled(t)
    \/ handleAnalyzeManualTextSettled(t)

NextPages ==
    \/ \E t \in Tabs : processImageClicked(t)
    \/ \E t \in Tabs : handleTranscribeClicked(t)
    \/ \E t \in Tabs : generateReport(t)
    \/ \E t \in Tabs : handleAnalyzeManualText(t)
    \/ \E t \in Tabs : Continues(t)
    \/ WhisperResponse
    \/ ChatResponse

SpecPages == InitPages /\ [][NextPages]_vars

\* Every fetch settles (the endpoint answers or the request fails) and the
\* event loop runs the continuation of every settled await.
SpecPagesFair ==
    /\ SpecPages
    /\ WF_vars(WhisperResponse)
    /\ WF_vars(ChatResponse)
    /\ \A t \in Tabs : WF_vars(Continues(t))

-----------------------------------------------------------------------------
(* Claims about the busy flags *)

-----------------------------------------------------------------------------
(* Claims about concurrent saves *)

IsPrefix(s, t) == Len(s) <= Len(t) /\ \A k \in 1..Len(s) : s[k] = t[k]

\* C18: a save takes no lock between its read and its write: what it writes is
\* the array it read with its record appended, whatever the key holds by then;
\* so when two tabs both read before either writes, the later write wins and
\* the record the other tab stored is absent from the stored array.
C18_LastWriteWins ==
    (/\ lastCall.op = "saveAnalysis"
     /\ lastCall.domain \in {"audio", "image"}
     /\ lastCall.reported) =>
        LET stored == StoredArray(storage, DomainKey(lastCall.domain))
        IN  /\ stored = Append(lastCall.read, lastCall.data)
            /\ \A k \in 1..Len(lastCall.before) :
                 (\A n \in 1..Len(lastCall.read) : lastCall.read[n] # lastCall.before[k])
                     => \A n \in 1..Len(stored) :
                            stored[n] = lastCall.before[k] => n = Len(stored)

\* Reached: both tabs read the empty image array, the first wrote its record,
\* the second wrote over it: the first record is gone.
C18_Witness ==
    /\ lastCall.op = "saveAnalysis"
    /\ lastCall.domain = "image"
    /\ lastCall.reported
    /\ lastCall.read = <<>>
    /\ Len(lastCall.before) = 1
    /\ lastCall.before[1] # lastCall.data
    /\ StoredArray(storage, ImageKey) = <<lastCall.data>>

\* A tab begins the analysis of a file of a case.
StartsAnalysis(t, domain, c, f) ==
    /\ IF domain = "image" THEN processImage(t) ELSE handleTranscribe(t)
    /\ procs'[t] = [pc |-> "analysing", domain |-> domain, caseId |-> c,
                    filename |-> f, read |-> NullText]

\* A tab's analysis ends and its own save begins.
BeginsOwnSave(t) ==
    /\ IF procs[t].domain = "image" THEN processImageAnalysed(t) ELSE handleTranscribeDone(t)
    /\ procs'[t].pc = "writing"

\* C19: nothing in processImage or handleTranscribe keeps a second invocation
\* for the same file from starting while the first waits for the network (as
\* long as no record of the file is stored), and every invocation that waits
\* can go on to a save of its own.
C19_NoAdmissionControl ==
    \A t, u \in Tabs :
        (/\ t # u
         /\ procs[u].pc = "analysing"
         /\ procs[u].caseId # NoCase) =>
            /\ (/\ procs[t].pc = "idle"
                /\ RecordsInHand < MaxRecords
                /\ ~FindsFilename(StoredArray(storage, DomainKey(procs[u].domain)),
                                  procs[u].filename)) =>
                   ENABLED StartsAnalysis(t, procs[u].domain, procs[u].caseId,
                                          procs[u].filename)
            /\ storage[DomainKey(procs[u].domain)].kind \in {"null", "arr"} =>
                   ENABLED BeginsOwnSave(u)

\* Reached: two invocations for the same file of the same case have both had
\* their transcription and are both in their own save.
C19_Witness ==
    /\ procs["tabA"].pc = "writing"
    /\ procs["tabB"].pc = "writing"
    /\ procs["tabA"].domain = "audio"
    /\ procs["tabB"].domain = "audio"
    /\ procs["tabA"].caseId = procs["tabB"].caseId
    /\ procs["tabA"].filename = procs["tabB"].filename

\* C20 as stated: no save and no lookup removes or rewrites a stored record:
\* whatever step is taken, short of the bulk clear, the array stored before is a
\* prefix of the array stored after.
C20_AppendOnlyAsStated ==
    [][lastCall'.op # "clear" =>
          \A key \in {AudioKey, ImageKey} :
              IsPrefix(StoredArray(storage, key), StoredArray(storage', key))]_vars

\* C20: a lookup and a save that fails write nothing; a save whose tab is the
\* only one to have written since the save's read appends its record, the
\* array stored before being a prefix of the new one; a save that follows
\* another tab's write or a bulk clear made after its read stores the array it
\* read with its record appended, so that the records written since are gone
\* (and cleared ones are back); apart from that, records disappear by the bulk
\* clear alone.
C20_AppendOnly ==
    [][\A key \in {AudioKey, ImageKey} :
          LET old == StoredArray(storage, key)
              new == StoredArray(storage', key)
              saves == /\ lastCall'.op = "saveAnalysis"
                       /\ DomainKey(lastCall'.domain) = key
                       /\ lastCall'.reported
          IN  IF lastCall'.op = "clear" THEN new = <<>>
              ELSE IF ~saves THEN storage'[key] = storage[key]
              ELSE /\ new = Append(lastCall'.read, lastCall'.data)
                   /\ lastCall'.read = old => IsPrefix(old, new)]_vars

\* Reached: a save appended its record to an array that held one, and the
\* record stored before is still the first.
C20_Witness ==
    /\ lastCall.op = "saveAnalysis"
    /\ lastCall.domain = "audio"
    /\ lastCall.reported
    /\ Len(lastCall.before) = 1
    /\ lastCall.read = lastCall.before
    /\ StoredArray(storage, AudioKey) = Append(lastCall.before, lastCall.data)

-----------------------------------------------------------------------------
(* Clearing the local data *)

\* The four-field record the older Settings page stores.
LegacyRecord ==
    [groqApiKey |-> "gsk_live", groqApiEndpoint |-> GroqChatUrl,
     whisperApiKey |-> "", whisperApiEndpoint |-> OpenAiWhisperUrl]

\* What localStorage may hold when the Settings page is opened: under the
\* settings key nothing, a text that is no JSON, a record with an API key or
\* the older page's record; under each other key nothing or something.
ClearStorage ==
    {[k \in StorageKeys |->
         CASE k = SettingsKey -> s
           [] k = AudioKey -> a
           [] k = ImageKey -> i
           [] k = OccurrencesKey -> o
           [] OTHER -> th] :
        s \in {NullText, RawText, JSON_stringify(LegacyRecord),
               JSON_stringify(Spread(DefaultSettings, [groqApiKey |-> "gsk_live"]))},
        a \in {NullText, JSON_stringifyArray(<<[caseId |-> "c1", filename |-> "f1"]>>)},
        i \in {NullText, RawText,
               JSON_stringifyArray(<<[caseId |-> "c1", filename |-> "f2"]>>)},
        o \in {NullText, JSON_stringifyArray(ForeignOccurrences)},
        th \in {NullText, RawText}}

InitClear ==
    /\ storage \in ClearStorage
    /\ svc \in Services
    /\ settings = DEFAULT_GROQ_SETTINGS
    /\ pendingSave = NoPendingSave
    /\ lastCall = [op |-> "none"]
    /\ call = IdleCall
    /\ procs = [t \in Tabs |-> IdleProc]

NextClear ==
    \/ handleClearLocalStorage
    \/ ReadSettings

SpecClear == InitClear /\ [][NextClear]_vars

-----------------------------------------------------------------------------
(* The mock chosen for two message lists *)

MaxMessages == 2

\* The messages the lists are made of.
MockMessages ==
    {SystemMessage({"imagem"}),
     UserMessage(StringContent({})),
     UserMessage(StringContent({"áudio"})),
     UserMessage(StringContent({"imagem", "boletim de ocorrência"})),
     UserMessage(ArrayContent(<<ImagePart, TextPart({"imagem"})>>))}

MessageLists == UNION {[1..n -> MockMessages] : n \in 0..MaxMessages}

\* makeGroqAIRequest(messages) of groqService.ts with no API key stored.
MockFor(messages, env) ==
    LET c == [NewCall("makeGroqAIRequest", NoArg, "") EXCEPT !.messages = messages]
    IN  makeGroqAIRequest(c, DefaultSettings, env).gateway.text

FirstMockRequest ==
    /\ lastCall.op = "none"
    /\ \E messages \in MessageLists : \E env \in Envs :
         lastCall' = [op |-> "mock", messages |-> messages,
                      text |-> MockFor(messages, env)]
    /\ UNCHANGED <<storage, svc, settings, pendingSave, call, procs>>

SecondMockRequest ==
    /\ lastCall.op = "mock"
    /\ \E messages \in MessageLists : \E env \in Envs :
         lastCall' = [op |-> "mock2", first |-> lastCall.messages,
                      firstText |-> lastCall.text, messages |-> messages,
                      text |-> MockFor(messages, env)]
    /\ UNCHANGED <<storage, svc, settings, pendingSave, call, procs>>

InitMock ==
    /\ storage = [k \in StorageKeys |-> NullText]
    /\ svc = "groqService.ts"
    /\ settings = DEFAULT_GROQ_SETTINGS
    /\ pendingSave = NoPendingSave
    /\ lastCall = [op |-> "none"]
    /\ call = IdleCall
    /\ procs = [t \in Tabs |-> IdleProc]

NextMock ==
    \/ FirstMockRequest
    \/ SecondMockRequest

SpecMock == InitMock /\ [][NextMock]_vars

\* C22: with no API key, two message lists whose last user messages are the
\* same get a mock of the same category from makeGroqAIRequest, whatever their
\* system messages and earlier user messages are.
C22_MockOfLastUserMessage ==
    (/\ lastCall.op = "mock2"
     /\ LastUserMessage(lastCall.first) = LastUserMessage(lastCall.messages)) =>
        /\ lastCall.firstText.kind = "mock"
        /\ lastCall.text.kind = "mock"
        /\ lastCall.firstText.tag = lastCall.text.tag

\* Reached: two lists with the same last user message and different messages
\* before it both got the audio mock.
C22_Witness ==
    /\ lastCall.op = "mock2"
    /\ lastCall.first = <<UserMessage(StringContent({"imagem", "boletim de ocorrência"})),
                          UserMessage(StringContent({"áudio"}))>>
    /\ lastCall.messages = <<SystemMessage({"imagem"}), UserMessage(StringContent({"áudio"}))>>
    /\ lastCall.text.tag = "audio"
    /\ lastCall.firstText.tag = "audio"

-----------------------------------------------------------------------------
(* Claims about sharpenImage *)

\* Whether index i of the data of a w by h image is a colour channel of a
\* pixel off the one-pixel border.
InteriorColour(w, h, i) ==
    LET x == ((i - 1) \div 4) % w
        y == ((i - 1) \div 4) \div w
    IN  (i - 1) % 4 < 3 /\ 0 < x /\ x < w - 1 /\ 0 < y /\ y < h - 1

\* The kernel sum of the claim, in tenths: 5.7 times the centre less the four
\* neighbours.
StatedSum10(in, i) ==
    LET w == in.width
    IN  57 * in.data[i] - 10 * (in.data[i - 4] + in.data[i + 4]
                                 + in.data[i - 4 * w] + in.data[i + 4 * w])

\* C23 as stated: each colour channel of an interior pixel is the kernel sum
\* clamped to [0,255]; alpha and border equal the input; all within [0,255].
C23_SharpenAsStated ==
    lastCall.op = "sharpenImage" =>
        LET in == lastCall.imageData
            out == lastCall.result
        IN  \A i \in 1..Len(in.data) :
                /\ out.data[i] \in 0..255
                /\ IF InteriorColour(in.width, in.height, i)
                   THEN 10 * out.data[i] = clamp10(StatedSum10(in, i))
                   ELSE out.data[i] = in.data[i]

\* C23: the output has the size of the input; each colour channel of an
\* interior pixel is the integer nearest to the kernel sum of the input
\* clamped to [0,255] (the even one when two are equally near); the alpha
\* channel and the border equal the input; every value is an integer of
\* [0,255].
C23_Sharpen ==
    lastCall.op = "sharpenImage" =>
        LET in == lastCall.imageData
            out == lastCall.result
        IN  /\ out.width = in.width /\ out.height = in.height
            /\ Len(out.data) = Len(in.data)
            /\ \A i \in 1..Len(in.data) :
                /\ out.data[i] \in 0..255
                /\ IF InteriorColour(in.width, in.height, i)
                   THEN LET gap == 10 * out.data[i] - clamp10(StatedSum10(in, i))
                        IN  /\ -5 <= gap /\ gap <= 5
                            /\ (gap = 5 \/ gap = -5) => out.data[i] % 2 = 0
                   ELSE out.data[i] = in.data[i]

\* Reached: an image with two interior pixels, one channel clamped at 0, one
\* at 255, and one rounded from a sum that is no integer.
C23_Witness ==
    /\ lastCall.op = "sharpenImage"
    /\ lastCall.imageData.width = 4
    /\ lastCall.imageData.height = 3
    /\ \E i, j, k \in 1..Len(lastCall.imageData.data) :
         /\ InteriorColour(4, 3, i) /\ InteriorColour(4, 3, j) /\ InteriorColour(4, 3, k)
         /\ StatedSum10(lastCall.imageData, i) < 0 /\ lastCall.result.data[i] = 0
         /\ StatedSum10(lastCall.imageData, j) > 2550 /\ lastCall.result.data[j] = 255
         /\ clamp10(StatedSum10(lastCall.imageData, k)) % 10 # 0

-----------------------------------------------------------------------------
(* Claims about the default graph *)

NodeIds(graph) == {graph.nodes[k].id : k \in 1..Len(graph.nodes)}

\* C24 as stated: in every graph processLinkAnalysisDataWithGroq returns on
\* its default path, each link's source and target is the id of a returned
\* node, whatever the file content, with no, one or more long words.
C24_DefaultGraphWellFormed ==
    lastCall.op = "processLinkAnalysisDataWithGroqDefault" =>
        \A k \in 1..Len(lastCall.result.links) :
            /\ lastCall.result.links[k].source \in NodeIds(lastCall.result)
            /\ lastCall.result.links[k].target \in NodeIds(lastCall.result)

\* C24: the state that breaks it: the content has one word longer than four
\* characters; its node is the only one, and the fixed links go to nodes "2"
\* and "3".
C24_DanglingLinks ==
    /\ lastCall.op = "processLinkAnalysisDataWithGroqDefault"
    /\ lastCall.fileContent = <<"a", "b", "c", "d", "e">>
    /\ NodeIds(lastCall.result) = {"1"}
    /\ Len(lastCall.result.links) = 2
    /\ lastCall.result.links[1].target = "2"
    /\ lastCall.result.links[2].target = "3"

-----------------------------------------------------------------------------
(* Claims about what processImage and handleTranscribe persist *)

\* processImage ends in this step, in some tab.
ProcessImageEnds ==
    \E t \in Tabs : procs[t].handler = "processImage" /\ procs'[t].pc = "idle"

\* C25: when processImage ends after enhanceImageWithGroq or
\* analyzeImageWithGroq rejected, no storage key has changed, saveToCurrentCase
\* was not called and no success toast shown; and the image-analyses key
\* changes, the case is saved to and the success toast is shown only in the
\* step that follows a returned analyzeImageWithGroq, which is called only
\* after enhanceImageWithGroq returned.
C25_NothingSavedOnRejection ==
    [][/\ (ProcessImageEnds /\ call.outcome.kind = "threw") =>
             /\ storage' = storage
             /\ ~lastCall'.savedToCase
             /\ lastCall'.toast = "error"
       /\ \A t \in Tabs :
            (/\ procs[t].handler = "processImage"
             /\ \/ storage'[ImageKey] # storage[ImageKey]
                \/ (procs'[t].pc = "idle" /\ lastCall'.op = "page" /\ lastCall'.result = "success")) =>
                /\ procs[t].pc = "analyse"
                /\ call.caller = "analyzeImageWithGroq"
                /\ call.outcome.kind = "returned"
       /\ \A t \in Tabs :
            (/\ procs[t].handler = "processImage"
             /\ procs[t].pc # "analyse"
             /\ procs'[t].pc = "analyse") =>
                /\ procs[t].pc = "enhance"
                /\ call.caller = "enhanceImageWithGroq"
                /\ call.outcome.kind = "returned"]_vars

\* Reached: the enhancement returned, analyzeImageWithGroq rejected, and
\* processImage has ended with nothing stored under the image-analyses key.
C25_Witness ==
    /\ lastCall.op = "page"
    /\ lastCall.result = "missing configuration"
    /\ lastCall.handler = "processImage"
    /\ lastCall.stage = "analyse"
    /\ storage[ImageKey] = NullText
    /\ \A t \in Tabs : ~procs[t].busy

\* A handler is at the end of its lookup and a record of its file is stored
\* for its case.
LooksUpStored(t) ==
    /\ procs[t].pc = "lookup"
    /\ FindsFilename(GetByCaseId(IF procs[t].handler = "processImage" THEN "image" ELSE "audio",
                                 storage, procs[t].caseId, FALSE).value,
                     procs[t].arg.name)

\* The handler returns the stored result: it ends, no call of groqService is
\* made and nothing is written.
ReturnsStored(t) ==
    /\ procs'[t].pc = "idle"
    /\ lastCall'.op = "page" /\ lastCall'.result = "cached result"
    /\ call' = call
    /\ call.posts = 0 /\ call.whisperPosts = 0
    /\ storage' = storage

\* C26 as stated: when a record for the case and the file is stored,
\* processImage and handleTranscribe return the stored result, with no network
\* request and no write to storage.
C26_StoredResultReturnedAsStated ==
    [][\A t \in Tabs : (LooksUpStored(t) /\ procs'[t] # procs[t]) => ReturnsStored(t)]_vars

\* C26: when a record for the case and the file is stored and the lookup's
\* read of the key does not raise, processImage and handleTranscribe return
\* the stored result, with no network request and no write to storage; when
\* the read raises, the lookup gives an empty list and the file is analysed
\* again.
C26_StoredResultReturned ==
    [][\A t \in Tabs :
          (LooksUpStored(t) /\ procs'[t] # procs[t]) =>
              \/ ReturnsStored(t)
              \/ /\ lastCall'.op = "page" /\ lastCall'.result = "not found"
                 /\ lastCall'.lookupRaised
                 /\ storage' = storage]_vars

\* Reached: a second processImage for a stored image has returned what is
\* stored: one record is stored, no call was made.
C26_Witness ==
    /\ lastCall = Ended("processImage", "cached result")
    /\ call = IdleCall
    /\ Len(StoredArray(storage, ImageKey)) = 1
    /\ \A t \in Tabs : procs[t] = IdlePage

-----------------------------------------------------------------------------
(* The audio page's list of files *)

MaxAudios == 2

\* What the file input hands to handleAudioUpload: no file, an audio file, a
\* file of another type.
TextFile == [name |-> "notes.txt", text |-> {}]
UploadedFiles == AudioFiles \cup {NoArg, TextFile}

NotTranscribed == Value("none", NoText, <<>>)

\* The AudioFile made by handleAudioUpload; its id is made of the clock.
NewAudio(file, now) == [id |-> now, name |-> file.name, file |-> file, transcription |-> NotTranscribed]
NoAudio == [id |-> 0, name |-> "", file |-> NoArg, transcription |-> NotTranscribed]

\* The audio page: audioFiles is the component's state, captured the
\* audioFiles of the render whose handleTranscribe is running.
IdleAudioPage ==
    [pc |-> "idle", handler |-> "none", busy |-> FALSE, caseId |-> NoCase, arg |-> NoAudio,
     audioFiles |-> <<>>, captured |-> <<>>]

\* audioFiles.map(a => a.id === audio.id ? { ...a, transcription } : a)
WithTranscription(audioFiles, audio, transcription) ==
    [i \in 1..Len(audioFiles) |->
        IF audioFiles[i].id = audio.id
        THEN [audioFiles[i] EXCEPT !.transcription = transcription]
        ELSE audioFiles[i]]

\* The list handleTranscribe maps: the audioFiles of its closure.
ListToUpdate(p) == p.captured

\* setAudioFiles(updatedAudioFiles), then the handler's end.
AudioPageAfter(p, transcription) ==
    [p EXCEPT !.pc = "idle", !.handler = "none", !.busy = FALSE, !.caseId = NoCase,
              !.arg = NoAudio, !.captured = <<>>,
              !.audioFiles = WithTranscription(ListToUpdate(p), p.arg, transcription)]

AudioPageAfterThrow(p) ==
    [p EXCEPT !.pc = "idle", !.handler = "none", !.busy = FALSE, !.caseId = NoCase,
              !.arg = NoAudio, !.captured = <<>>]

\* How handleTranscribe ended, and the list its setAudioFiles replaced.
EndedAudio(path, replaced) ==
    [op |-> "page", result |-> path, handler |-> "handleTranscribe", replaced |-> replaced]

\* The files the pages list; the model bounds their number.
RECURSIVE ListedIn(_)
ListedIn(tabs) ==
    IF tabs = {} THEN 0
    ELSE LET t == CHOOSE u \in tabs : TRUE
         IN  Len(procs[t].audioFiles) + ListedIn(tabs \ {t})
ListedAudios == ListedIn(Tabs)

\* handleAudioUpload: a file that is no audio is refused; an audio file is
\* appended to the audioFiles of the render the handler belongs to. The file
\* input is not disabled while a transcription is awaited.
handleAudioUpload(t) ==
    /\ \E file \in UploadedFiles :
         IF file = NoArg \/ file \notin AudioFiles
         THEN /\ procs' = procs
              /\ lastCall' = [op |-> "upload", result |-> "refused", name |-> file.name]
         ELSE /\ ListedAudios < MaxAudios
              /\ procs' = [procs EXCEPT ![t].audioFiles =
                              Append(@, NewAudio(file, Len(procs[t].audioFiles) + 1))]
              /\ lastCall' = [op |-> "upload", result |-> "added", name |-> file.name]
    /\ UNCHANGED <<storage, svc, settings, pendingSave, call>>

\* handleTranscribe of a listed file up to its first await.
handleTranscribeOfList(t) ==
    /\ CanClick(t)
    /\ \E i \in 1..Len(procs[t].audioFiles) : \E c \in {"c1", NoCase} : \E rf \in BOOLEAN :
         LET audio == procs[t].audioFiles[i]
             p == [procs[t] EXCEPT !.handler = "handleTranscribe", !.busy = TRUE, !.caseId = c,
                                   !.arg = audio, !.captured = procs[t].audioFiles]
         IN  IF c = NoCase
             THEN /\ procs' = [procs EXCEPT ![t] = [p EXCEPT !.pc = "transcribe"]]
                  /\ call' = transcribeAudioWithGroq(getGroqSettings(storage, rf).value, audio.file)
             ELSE /\ StoredAnalyses < MaxRecords
                  /\ procs' = [procs EXCEPT ![t] = [p EXCEPT !.pc = "lookup"]]
                  /\ call' = IdleCall
    /\ lastCall' = [op |-> "page", result |-> "started"]
    /\ UNCHANGED <<storage, svc, settings, pendingSave>>

\* handleTranscribe from the lookup's end.
handleTranscribeOfListLookedUp(t) ==
    /\ procs[t].pc = "lookup"
    /\ \E rf, rf2 \in BOOLEAN :
         LET transcriptions == getAudioTranscriptionsByCaseId(storage, procs[t].caseId, rf).value
         IN  IF FindsFilename(transcriptions, procs[t].arg.name)
             THEN /\ procs' = [procs EXCEPT ![t] = AudioPageAfter(@, Value("cached", NoText, <<>>))]
                  /\ lastCall' = EndedAudio("cached result", procs[t].audioFiles)
                  /\ call' = call
             ELSE /\ procs' = [procs EXCEPT ![t].pc = "transcribe"]
                  /\ call' = transcribeAudioWithGroq(getGroqSettings(storage, rf2).value,
                                                     procs[t].arg.file)
                  /\ lastCall' = NotFound("handleTranscribe", rf)
    /\ UNCHANGED <<storage, svc, settings, pendingSave>>

\* handleTranscribe from the end of transcribeAudioWithGroq: the list is
\* replaced, then with a case the transcription is saved.
handleTranscribeOfListSettled(t) ==
    /\ procs[t].pc = "transcribe"
    /\ call.pc = "done"
    /\ IF call.outcome.kind = "threw"
       THEN /\ storage' = storage
            /\ procs' = [procs EXCEPT ![t] = AudioPageAfterThrow(@)]
            /\ lastCall' = EndedAudio(PathOf(call.outcome), <<>>)
       ELSE /\ IF procs[t].caseId = NoCase
               THEN storage' = storage
               ELSE \E rf, wf \in BOOLEAN :
                      storage' = saveAudioTranscription(storage, PageRecord(procs[t]), rf, wf).store
            /\ procs' = [procs EXCEPT ![t] = AudioPageAfter(@, call.outcome.value)]
            /\ lastCall' = EndedAudio("success", procs[t].audioFiles)
    /\ call' = IdleCall
    /\ UNCHANGED <<svc, settings, pendingSave>>

InitAudio ==
    /\ storage \in GatewayStorage
    /\ svc = "groqService.ts"
    /\ settings = DEFAULT_GROQ_SETTINGS
    /\ pendingSave = NoPendingSave
    /\ lastCall = [op |-> "none"]
    /\ call = IdleCall
    /\ procs = [t \in Tabs |-> IdleAudioPage]

NextAudio ==
    \/ \E t \in Tabs : handleAudioUpload(t)
    \/ \E t \in Tabs : handleTranscribeOfList(t)
    \/ \E t \in Tabs : handleTranscribeOfListLookedUp(t)
    \/ \E t \in Tabs : handleTranscribeOfListSettled(t)
    \/ WhisperResponse

SpecAudio == InitAudio /\ [][NextAudio]_vars

\* C27: a file added by handleAudioUpload while handleTranscribe awaits is
\* not lost: when the transcription completes, the list holds every file it
\* held just before, and only the transcribed file's entry is changed.
C27_UploadsKept ==
    [][\A t \in Tabs :
          (procs[t].busy /\ ~procs'[t].busy) =>
              /\ Len(procs'[t].audioFiles) = Len(procs[t].audioFiles)
              /\ \A i \in 1..Len(procs[t].audioFiles) :
                    \/ procs'[t].audioFiles[i] = procs[t].audioFiles[i]
                    \/ /\ procs[t].audioFiles[i].id = procs[t].arg.id
                       /\ procs'[t].audioFiles[i] =
                             [procs[t].audioFiles[i] EXCEPT
                                 !.transcription = procs'[t].audioFiles[i].transcription]]_vars

\* Reached: a transcription has completed and the list it replaced held a
\* file, uploaded during the await, that the page's list no longer holds.
C27_UploadLost ==
    \E t \in Tabs :
        /\ lastCall.op = "page" /\ lastCall.result = "success"
        /\ lastCall.handler = "handleTranscribe"
        /\ ~procs[t].busy
        /\ Len(lastCall.replaced) = 2
        /\ Len(procs[t].audioFiles) = 1
        /\ procs[t].audioFiles[1].transcription # NotTranscribed

-----------------------------------------------------------------------------
(* The application's start over what the settings key may hold *)

\* What the settings key holds when the application starts: nothing, the
\* empty string, a text that is no JSON, a record without an API key, a
\* record with one.
StartStorage ==
    {[k \in StorageKeys |-> IF k = SettingsKey THEN t ELSE NullText] :
        t \in {NullText, EmptyText, RawText,
               JSON_stringify(DefaultSettings),
               JSON_stringify(Spread(DefaultSettings, [groqApiKey |-> "gsk_live"]))}}

InitStart ==
    /\ storage \in StartStorage
    /\ svc \in Services
    /\ settings = DEFAULT_GROQ_SETTINGS
    /\ pendingSave = NoPendingSave
    /\ lastCall = [op |-> "none"]
    /\ call = IdleCall
    /\ procs = [t \in Tabs |-> IdleProc]

\* The start, and the Settings page saving what it shows.
NextStart ==
    \/ AppInit
    \/ SettingsMount
    \/ handleSaveSettings
    \/ saveSettings
    \/ ReadSettings

SpecStart == InitStart /\ [][NextStart]_vars

\* C28 as stated: the application's start writes the default record only when
\* the settings key is absent; when the key holds any value the stored value
\* is the same before and after.
C28_StartKeepsStoredAsStated ==
    [][AppInit => (storage[SettingsKey] # NullText => storage' = storage)]_vars

\* C28: the application's start writes the default record only when the
\* settings key is absent or holds the empty string; when the key holds any
\* other value (a text that is no JSON, a record with an empty API key
\* included) the stored value is the same before and after, and no other key
\* is ever changed.
C28_StartKeepsStored ==
    [][AppInit =>
          /\ Truthy(storage[SettingsKey]) => storage' = storage
          /\ \A k \in StorageKeys \ {SettingsKey} : storage'[k] = storage[k]
          /\ storage' # storage =>
                JSON_parse(storage'[SettingsKey]).val["groqApiKey"] = ""]_vars

\* Reached: the application has started over a stored record without an API
\* key and the record is still what is stored.
C28_Witness ==
    /\ lastCall.op = "appInit"
    /\ storage[SettingsKey] = JSON_stringify(DefaultSettings)
    /\ ~pendingSave.active

-----------------------------------------------------------------------------
(* Claims about the ways makeGroqAIRequest ends *)

\* A call of makeGroqAIRequest of groqService.ts has ended.
DirectRequestEnded ==
    /\ svc = "groqService.ts"
    /\ call.caller = "makeGroqAIRequest"
    /\ call.pc = "done"

\* C29: makeGroqAIRequest of groqService.ts never rejects: whatever the
\* endpoint did (a 2xx reply, a non-2xx status with a readable or an
\* unreadable body, no response, a 2xx body without choices), and without an
\* API key, it resolves with the reply's text or with a mock.
C29_RequestNeverRejects ==
    DirectRequestEnded =>
        /\ ~call.gateway.threw
        /\ call.outcome.kind = "returned"
        /\ call.gateway.text.kind = IF call.status = "ok" THEN "reply" ELSE "mock"
        /\ call.status \in {"none", "ok", "malformed", "non2xx", "neterr"}
        /\ call.status = "none" <=> call.posts = 0

\* Reached: the fetch of a call of makeGroqAIRequest failed and the call has
\* resolved with a mock.
C29_Witness ==
    /\ DirectRequestEnded
    /\ call.status = "neterr"
    /\ call.posts = 1
    /\ call.gateway.text.kind = "mock"
    /\ call.outcome.kind = "returned"

-----------------------------------------------------------------------------
(* saveAudioTranscription and saveImageAnalysis over what their key may hold *)

\* What a domain's key holds before a save: nothing, the empty string, a text
\* that is no JSON, a JSON object, an array of one record.
DomainTexts ==
    {NullText, EmptyText, RawText, ObjectText,
     JSON_stringifyArray(<<[caseId |-> "c1", filename |-> "a.mp3"]>>)}

SaveStorage ==
    {[k \in StorageKeys |->
         CASE k = AudioKey -> a
           [] k = ImageKey -> i
           [] k = SettingsKey -> JSON_stringify(DefaultSettings)
           [] OTHER -> NullText] : a, i \in DomainTexts}

\* One call of a save function of databaseService.ts, from its read of the
\* key to its return.
SaveAnalysis(domain) ==
    /\ Len(StoredArray(storage, DomainKey(domain))) < MaxRecords
    /\ \E data \in AnalysisRecords : \E rf, wf \in BOOLEAN :
         LET saved == IF domain = "audio"
                      THEN saveAudioTranscription(storage, data, rf, wf)
                      ELSE saveImageAnalysis(storage, data, rf, wf)
         IN  /\ storage' = saved.store
             /\ lastCall' = [op |-> "saveAnalysis", domain |-> domain, data |-> data,
                             ok |-> saved.ok, readRaised |-> rf, writeRaised |-> wf]
    /\ UNCHANGED <<svc, settings, pendingSave, call, procs>>

InitSave ==
    /\ storage \in SaveStorage
    /\ svc = "groqService.ts"
    /\ settings = DEFAULT_GROQ_SETTINGS
    /\ pendingSave = NoPendingSave
    /\ lastCall = [op |-> "none"]
    /\ call = IdleCall
    /\ procs = [t \in Tabs |-> IdleProc]

NextSave ==
    \/ SaveAnalysis("audio")
    \/ SaveAnalysis("image")

SpecSave == InitSave /\ [][NextSave]_vars

\* The text under the key is a JSON array, or the key holds nothing (null or
\* the empty string), for which the save starts from the empty array.
HoldsArrayOrNothing(store, key) ==
    \/ ~Truthy(store[key])
    \/ LET p == JSON_parse(store[key]) IN ~p.exc /\ p.isArray

\* C30 as stated: saveAudioTranscription and saveImageAnalysis return false
\* and leave every storage key as it was when the existing value is no
\* parsable JSON array or the write raises; when they return true, exactly one
\* record was appended to the domain's key and no other key has changed.
C30_SaveAppendsOrLeavesAsStated ==
    [][\A domain \in {"audio", "image"} :
          SaveAnalysis(domain) =>
              LET key == DomainKey(domain)
                  p == JSON_parse(storage[key])
                  fails == \/ storage[key] # NullText /\ (p.exc \/ ~p.isArray)
                           \/ lastCall'.writeRaised
              IN  /\ fails => ~lastCall'.ok /\ storage' = storage
                  /\ lastCall'.ok =>
                        /\ StoredArray(storage', key) =
                              Append(StoredArray(storage, key), lastCall'.data)
                        /\ \A k \in StorageKeys \ {key} : storage'[k] = storage[k]]_vars

\* C30: over a key that holds nothing or the empty string the save starts
\* from the empty array. Apart from that, saveAudioTranscription and
\* saveImageAnalysis return false and leave
\* every storage key as it was when what their key holds is no parsable JSON
\* array or a storage access raises; when they return true, the key holds
\* the array it held with exactly the one record appended, and no other key
\* has changed.
C30_SaveAppendsOrLeaves ==
    [][\A domain \in {"audio", "image"} :
          SaveAnalysis(domain) =>
              LET key == DomainKey(domain)
                  fails == \/ ~HoldsArrayOrNothing(storage, key)
                           \/ lastCall'.readRaised
                           \/ lastCall'.writeRaised
              IN  /\ lastCall'.ok = ~fails
                  /\ ~lastCall'.ok => storage' = storage
                  /\ lastCall'.ok =>
                        /\ StoredArray(storage', key) =
                              Append(StoredArray(storage, key), lastCall'.data)
                        /\ HoldsArrayOrNothing(storage', key) /\ Truthy(storage'[key])
                        /\ \A k \in StorageKeys \ {key} : storage'[k] = storage[k]]_vars

\* Reached: saveAudioTranscription has returned false over a key that holds a
\* JSON object, with no storage access raising, and the object is still what
\* the key holds.
C30_Witness ==
    /\ lastCall.op = "saveAnalysis" /\ lastCall.domain = "audio"
    /\ ~lastCall.ok /\ ~lastCall.readRaised /\ ~lastCall.writeRaised
    /\ storage[AudioKey] = ObjectText
    /\ Len(StoredArray(storage, ImageKey)) = 2

====
